---- MODULE Spec2Model ----
(***************************************************************************)
(* Verification model of the KSP rocket builder.                           *)
(*                                                                         *)
(* Part 1: RocketAssembler (src/src/engine/modules/assembly/               *)
(* RocketAssembler.js): the part/connection graph of a rocket, its         *)
(* mutators connectParts, disconnectParts, movePart, rotatePart, the       *)
(* part:removed cascade and validateStructure.                             *)
(*                                                                         *)
(* RocketCore (core.rocket, core.events) is not part of the sources at     *)
(* hand.  core.rocket.parts / core.rocket.connections are modelled as the  *)
(* variables parts / connections; the event bus is modelled from the       *)
(* specification: publish delivers synchronously to the subscribers, and   *)
(* an exception thrown by a subscriber reaches the publisher.              *)
(***************************************************************************)
EXTENDS Integers, Sequences, FiniteSets, TLC

VARIABLES
    parts,        \* core.rocket.parts: sequence of part instances
    connections,  \* core.rocket.connections: sequence of connections
    lastOp,       \* the operation that ran last, with its arguments
    result,       \* what it returned: "true", "false", "undefined", "threw"
    pre,          \* core.rocket.connections when it was called
    events,       \* the notifications it published, each with the
                  \* connection list a synchronous subscriber saw
    nextId,       \* the id RocketCore gives the next instance
    customRules,      \* DataValidator.customRules: per entity type, the
                      \* registered rules in insertion order
    validationCache,  \* DataValidator.validationCache: cache key -> result
    call,             \* the DataValidator entry point called last, with
                      \* its arguments
    returned          \* what it returned

vars == <<parts, connections, lastOp, result, pre, events, nextId,
          customRules, validationCache, call, returned>>

\* the variables of each engine
assemblerVars == <<parts, connections, lastOp, result, pre, events, nextId>>
validatorVars == <<customRules, validationCache, call, returned>>

(***************************************************************************)
(* Bounds and input domains                                                *)
(***************************************************************************)
NumIds == 3
PartIds == 1..NumIds                 \* instance ids
NoId == 0                            \* "no such argument" in lastOp
Nodes == {"top", "bottom"}           \* attachment node names (the defaults)
\* catalogue entries an instance can be placed from
CommandPod ==
    [partType |-> "commandModule", category |-> "command",
     size |-> "small", mass |-> 1]
LargeEngine ==
    [partType |-> "engine", category |-> "engines",
     size |-> "large", mass |-> 12]
PartKinds == {CommandPod, LargeEngine}
Axes == {"x", "y", "z"}
MaxCoord == 1
Coords == 0..MaxCoord
Origin == [a \in Axes |-> 0]
\* a move/rotate argument: an object with some of the axes
PartialVectors ==
    UNION { [S -> Coords] : S \in { T \in SUBSET Axes : Cardinality(T) <= 1 } }

(***************************************************************************)
(* Sequence helpers (Array.prototype)                                      *)
(***************************************************************************)
\* Array.prototype.splice(index, 1)
Splice(s, index) ==
    [i \in 1..(Len(s) - 1) |-> IF i < index THEN s[i] ELSE s[i + 1]]

\* Array.prototype.findIndex / find / indexOf: the first position whose
\* test succeeds (tests[i] is the test's value on element i), 0 for -1
RECURSIVE FindIndexFrom(_, _)
FindIndexFrom(tests, i) ==
    IF i > Len(tests) THEN 0
    ELSE IF tests[i] THEN i
    ELSE FindIndexFrom(tests, i + 1)

FindIndex(tests) == FindIndexFrom(tests, 1)

IndexOf(s, e) == FindIndex([i \in DOMAIN s |-> s[i] = e])

Includes(s, e) == \E i \in DOMAIN s : s[i] = e

(***************************************************************************)
(* Records                                                                 *)
(***************************************************************************)
Connection(parentId, attachPointParent, childId, attachPointChild) ==
    [ parent |-> [id |-> parentId, node |-> attachPointParent],
      child  |-> [id |-> childId,  node |-> attachPointChild] ]

Event(topic, payload, seen) ==
    [topic |-> topic, payload |-> payload, seen |-> seen]

Op(name, a, b, an, bn) ==
    [name |-> name, a |-> a, b |-> b, an |-> an, bn |-> bn]

NullPart == [id |-> NoId]

(***************************************************************************)
(* RocketAssembler queries                                                 *)
(***************************************************************************)
\* _getPartById: the first part with that id, or null
GetPartById(ps, partId) ==
    LET i == FindIndex([k \in DOMAIN ps |-> ps[k].id = partId])
    IN  IF i = 0 THEN NullPart ELSE ps[i]

\* !part
IsNull(part) == part.id = NoId

\* _isNodeOccupied looking at the parent side of the connections only
IsNodeOccupiedParentSide(conns, partId, nodeName) ==
    \E i \in DOMAIN conns :
        conns[i].parent.id = partId /\ conns[i].parent.node = nodeName

\* _isNodeOccupied
IsNodeOccupied(conns, partId, nodeName) ==
    \E i \in DOMAIN conns :
        \/ (conns[i].parent.id = partId /\ conns[i].parent.node = nodeName)
        \/ (conns[i].child.id = partId /\ conns[i].child.node = nodeName)

\* ids of the direct children of currentId, in connection order
RECURSIVE DirectChildren(_, _)
DirectChildren(conns, currentId) ==
    IF conns = <<>> THEN <<>>
    ELSE IF Head(conns).parent.id = currentId
         THEN <<Head(conns).child.id>> \o DirectChildren(Tail(conns), currentId)
         ELSE DirectChildren(Tail(conns), currentId)

\* the forEach of _getAllChildParts: st = [children, toProcess]
RECURSIVE PushNew(_, _)
PushNew(ids, st) ==
    IF ids = <<>> THEN st
    ELSE IF Includes(st.children, Head(ids))
         THEN PushNew(Tail(ids), st)
         ELSE PushNew(Tail(ids),
                      [children  |-> Append(st.children, Head(ids)),
                       toProcess |-> Append(st.toProcess, Head(ids))])

\* the while loop of _getAllChildParts
RECURSIVE ChildPartsLoop(_, _)
ChildPartsLoop(conns, st) ==
    IF st.toProcess = <<>> THEN st.children
    ELSE ChildPartsLoop(conns,
            PushNew(DirectChildren(conns, Head(st.toProcess)),
                    [children |-> st.children, toProcess |-> Tail(st.toProcess)]))

\* _getAllChildParts stopping at the direct children
GetDirectChildPartsOnly(conns, partId) ==
    PushNew(DirectChildren(conns, partId),
            [children |-> <<>>, toProcess |-> <<>>]).children

\* _getAllChildParts
GetAllChildParts(conns, partId) ==
    ChildPartsLoop(conns, [children |-> <<>>, toProcess |-> <<partId>>])

\* _isCreatingCycle without the childId === parentId test
IsCreatingCycleNoSelfTest(conns, childId, parentId) ==
    Includes(GetAllChildParts(conns, childId), parentId)

\* _isCreatingCycle
IsCreatingCycle(conns, childId, parentId) ==
    IF childId = parentId THEN TRUE
    ELSE Includes(GetAllChildParts(conns, childId), parentId)

(***************************************************************************)
(* Event bus (core.events), modelled from the specification: publish calls *)
(* the subscribers synchronously, so a subscriber sees the connection list *)
(* as it is at the publish call; if the subscriber of the throwAt-th       *)
(* publish call throws, the exception unwinds the handler at that call     *)
(* (RocketAssembler has no try/catch).  A run is what a handler does when  *)
(* no subscriber throws: [connections, events, result], where each event   *)
(* carries the connection list at its publish call.                        *)
(***************************************************************************)
Run(conns, evs, res) ==
    [connections |-> conns, events |-> evs, result |-> res]

Publish(run, throwAt) ==
    IF throwAt >= 1 /\ throwAt <= Len(run.events)
    THEN Run(run.events[throwAt].seen, SubSeq(run.events, 1, throwAt), "threw")
    ELSE run

(***************************************************************************)
(* RocketAssembler mutators, as runs                                       *)
(***************************************************************************)
\* connectParts pushing the connection before the cycle check
ConnectPartsRunPushFirst(ps, conns, childId, parentId, attachPointChild, attachPointParent) ==
    IF IsNull(GetPartById(ps, childId)) \/ IsNull(GetPartById(ps, parentId))
    THEN Run(conns, <<>>, "false")
    ELSE IF IsNodeOccupied(conns, parentId, attachPointParent)
    THEN Run(conns, <<>>, "false")
    ELSE IF IsNodeOccupied(conns, childId, attachPointChild)
    THEN Run(conns, <<>>, "false")
    ELSE LET connection ==
                 Connection(parentId, attachPointParent, childId, attachPointChild)
             pushed == Append(conns, connection)
         IN  IF IsCreatingCycle(conns, childId, parentId)
             THEN Run(pushed, <<>>, "false")
             ELSE Run(pushed,
                      << Event("connection:created", connection, pushed),
                         Event("rocket:updated", "structure", pushed) >>,
                      "true")

\* connectParts
ConnectPartsRun(ps, conns, childId, parentId, attachPointChild, attachPointParent) ==
    IF IsNull(GetPartById(ps, childId)) \/ IsNull(GetPartById(ps, parentId))
    THEN Run(conns, <<>>, "false")
    ELSE IF IsNodeOccupied(conns, parentId, attachPointParent)
    THEN Run(conns, <<>>, "false")
    ELSE IF IsNodeOccupied(conns, childId, attachPointChild)
    THEN Run(conns, <<>>, "false")
    ELSE IF IsCreatingCycle(conns, childId, parentId)
    THEN Run(conns, <<>>, "false")
    ELSE LET connection ==
                 Connection(parentId, attachPointParent, childId, attachPointChild)
             pushed == Append(conns, connection)
         IN  Run(pushed,
                 << Event("connection:created", connection, pushed),
                    Event("rocket:updated", "structure", pushed) >>,
                 "true")

\* disconnectParts looking for the child id only
DisconnectPartsRunChildOnly(conns, childId, parentId) ==
    LET connectionIndex ==
            FindIndex([k \in DOMAIN conns |-> conns[k].child.id = childId])
    IN  IF connectionIndex = 0
        THEN Run(conns, <<>>, "false")
        ELSE LET connection == conns[connectionIndex]
                 spliced == Splice(conns, connectionIndex)
             IN  Run(spliced,
                     << Event("connection:removed", connection, spliced),
                        Event("rocket:updated", "structure", spliced) >>,
                     "true")

\* disconnectParts
DisconnectPartsRun(conns, childId, parentId) ==
    LET connectionIndex ==
            FindIndex([k \in DOMAIN conns |->
                          conns[k].parent.id = parentId /\ conns[k].child.id = childId])
    IN  IF connectionIndex = 0
        THEN Run(conns, <<>>, "false")
        ELSE LET connection == conns[connectionIndex]
                 spliced == Splice(conns, connectionIndex)
             IN  Run(spliced,
                     << Event("connection:removed", connection, spliced),
                        Event("rocket:updated", "structure", spliced) >>,
                     "true")

\* the filter of _onPartRemoved looking at the parent side only
RECURSIVE ConnectionsToRemoveParentSide(_, _)
ConnectionsToRemoveParentSide(conns, partId) ==
    IF conns = <<>> THEN <<>>
    ELSE IF Head(conns).parent.id = partId
         THEN <<Head(conns)>> \o ConnectionsToRemoveParentSide(Tail(conns), partId)
         ELSE ConnectionsToRemoveParentSide(Tail(conns), partId)

\* the connections of conns that touch partId, in order (the filter of
\* _onPartRemoved)
RECURSIVE ConnectionsToRemove(_, _)
ConnectionsToRemove(conns, partId) ==
    IF conns = <<>> THEN <<>>
    ELSE IF Head(conns).parent.id = partId \/ Head(conns).child.id = partId
         THEN <<Head(conns)>> \o ConnectionsToRemove(Tail(conns), partId)
         ELSE ConnectionsToRemove(Tail(conns), partId)

\* the forEach of _onPartRemoved: splice, then publish, one connection at a
\* time.  indexOf compares object identity; two connections of the list
\* never have equal contents (they would share both nodes), so equality of
\* contents finds the same element.
RECURSIVE RemoveEach(_, _)
RemoveEach(toRemove, run) ==
    IF toRemove = <<>> THEN run
    ELSE LET conn == Head(toRemove)
             index == IndexOf(run.connections, conn)
         IN  IF index # 0
             THEN LET spliced == Splice(run.connections, index)
                  IN  RemoveEach(Tail(toRemove),
                          Run(spliced,
                              Append(run.events,
                                     Event("connection:removed", conn, spliced)),
                              run.result))
             ELSE RemoveEach(Tail(toRemove), run)

\* _onPartRemoved
OnPartRemovedRun(conns, partId) ==
    IF partId = NoId THEN Run(conns, <<>>, "undefined")
    ELSE LET connectionsToRemove == ConnectionsToRemove(conns, partId)
             removed == RemoveEach(connectionsToRemove,
                                   Run(conns, <<>>, "undefined"))
         IN  IF Len(connectionsToRemove) > 0
             THEN Run(removed.connections,
                      Append(removed.events,
                             Event("rocket:updated", "structure",
                                   removed.connections)),
                      removed.result)
             ELSE removed

\* { ...part.position, ...newPosition }
Merge(old, new) ==
    [a \in (DOMAIN old) \cup (DOMAIN new) |->
        IF a \in DOMAIN new THEN new[a] ELSE old[a]]

\* the position of the first part with that id (the part _getPartById finds)
PartIndex(ps, partId) ==
    FindIndex([k \in DOMAIN ps |-> ps[k].id = partId])

\* movePart: the parts after the call (the part is updated in place)
MovePartParts(ps, partId, newPosition) ==
    [i \in DOMAIN ps |->
        IF i = PartIndex(ps, partId)
        THEN [ps[i] EXCEPT !.position = Merge(@, newPosition)]
        ELSE ps[i]]

\* rotatePart: the parts after the call
RotatePartParts(ps, partId, newRotation) ==
    [i \in DOMAIN ps |->
        IF i = PartIndex(ps, partId)
        THEN [ps[i] EXCEPT !.rotation = Merge(@, newRotation)]
        ELSE ps[i]]

\* movePart / rotatePart: neither touches the connection list
VisualRun(ps, conns, partId, topic) ==
    IF IsNull(GetPartById(ps, partId))
    THEN Run(conns, <<>>, "false")
    ELSE Run(conns,
             << Event(topic, partId, conns),
                Event("rocket:updated", "visual", conns) >>,
             "true")

(***************************************************************************)
(* validateStructure                                                       *)
(***************************************************************************)
\* the forEach of _getAllConnectedParts for currentId:
\* st = [connected, toProcess]
RECURSIVE VisitRelated(_, _, _)
VisitRelated(conns, currentId, st) ==
    IF conns = <<>> THEN st
    ELSE LET conn == Head(conns)
         IN  IF conn.parent.id = currentId \/ conn.child.id = currentId
             THEN LET otherId == IF conn.parent.id = currentId
                                 THEN conn.child.id ELSE conn.parent.id
                  IN  IF Includes(st.connected, otherId)
                      THEN VisitRelated(Tail(conns), currentId, st)
                      ELSE VisitRelated(Tail(conns), currentId,
                               [connected |-> Append(st.connected, otherId),
                                toProcess |-> Append(st.toProcess, otherId)])
             ELSE VisitRelated(Tail(conns), currentId, st)

\* the while loop of _getAllConnectedParts
RECURSIVE ConnectedLoop(_, _)
ConnectedLoop(conns, st) ==
    IF st.toProcess = <<>> THEN st.connected
    ELSE ConnectedLoop(conns,
            VisitRelated(conns, Head(st.toProcess),
                [connected |-> st.connected, toProcess |-> Tail(st.toProcess)]))

\* _getAllConnectedParts
GetAllConnectedParts(conns, rootId) ==
    IF rootId = NoId THEN <<>>
    ELSE ConnectedLoop(conns, [connected |-> <<rootId>>, toProcess |-> <<rootId>>])

IsCommandModule(part) ==
    part.partType = "commandModule" \/ part.category = "command"

\* _findRootPart, strategy 2: the parent ids that are never a child id
RECURSIVE ParentOnlyIds(_, _)
ParentOnlyIds(rest, conns) ==
    IF rest = <<>> THEN <<>>
    ELSE LET parentId == Head(rest).parent.id
         IN  IF \E i \in DOMAIN conns : conns[i].child.id = parentId
             THEN ParentOnlyIds(Tail(rest), conns)
             ELSE <<parentId>> \o ParentOnlyIds(Tail(rest), conns)

\* _findRootPart without strategy 2
FindRootPartNoParentOnly(ps, conns) ==
    LET commandModule == FindIndex([k \in DOMAIN ps |-> IsCommandModule(ps[k])])
    IN  IF commandModule # 0 THEN ps[commandModule]
        ELSE IF Len(ps) > 0 THEN ps[1]
        ELSE NullPart

\* _findRootPart
FindRootPart(ps, conns) ==
    LET commandModule == FindIndex([k \in DOMAIN ps |-> IsCommandModule(ps[k])])
        parentOnlyIds == ParentOnlyIds(conns, conns)
    IN  IF commandModule # 0 THEN ps[commandModule]
        ELSE IF Len(parentOnlyIds) > 0 THEN GetPartById(ps, parentOnlyIds[1])
        ELSE IF Len(ps) > 0 THEN ps[1]
        ELSE NullPart

\* _isRequiringRadialSupport
IsRequiringRadialSupport(ps, partId) ==
    LET part == GetPartById(ps, partId)
    IN  IF IsNull(part) THEN FALSE
        ELSE part.category = "engines" /\ part.size = "large"

\* _hasAdequateSupport
HasAdequateSupport(conns, partId) ==
    Len(ConnectionsToRemove(conns, partId)) >= 2

RECURSIVE SumSeq(_)
SumSeq(s) == IF s = <<>> THEN 0 ELSE Head(s) + SumSeq(Tail(s))

RECURSIVE SelectEngines(_)
SelectEngines(ps) ==
    IF ps = <<>> THEN <<>>
    ELSE IF Head(ps).category = "engines"
         THEN <<Head(ps)>> \o SelectEngines(Tail(ps))
         ELSE SelectEngines(Tail(ps))

\* the standard deviation of the engines' coordinate on one axis exceeds
\* the threshold 0.5:  sqrt(sum((x_i - S/n)^2) / n) > 1/2, in integers
\* 4 * sum((n*x_i - S)^2) > n^3
AxisImbalanced(engines, axis) ==
    LET n == Len(engines)
        S == SumSeq([i \in 1..n |-> engines[i].position[axis]])
        dev == SumSeq([i \in 1..n |->
                   (n * engines[i].position[axis] - S)
                   * (n * engines[i].position[axis] - S)])
    IN  4 * dev > n * n * n

\* _isThrustvectoringImbalanced
IsThrustvectoringImbalanced(ps) ==
    LET engines == SelectEngines(ps)
    IN  IF Len(engines) <= 1 THEN FALSE
        ELSE \E axis \in Axes : AxisImbalanced(engines, axis)

MassRatioThreshold == 10

\* _checkExcessiveMassRatios() > 10: some connection between two existing
\* parts has max(parentMass / childMass, childMass / parentMass) > 10
\* (masses are positive integers here, so "mass || 1" is the mass itself)
ExcessiveMassRatio(ps, conns) ==
    \E i \in DOMAIN conns :
        LET parentPart == GetPartById(ps, conns[i].parent.id)
            childPart == GetPartById(ps, conns[i].child.id)
        IN  /\ ~IsNull(parentPart)
            /\ ~IsNull(childPart)
            /\ \/ parentPart.mass > MassRatioThreshold * childPart.mass
               \/ childPart.mass > MassRatioThreshold * parentPart.mass

Issue(type, code) == [type |-> type, code |-> code]

\* the per-part loop of _checkStabilityIssues
RECURSIVE SupportIssues(_, _, _)
SupportIssues(rest, ps, conns) ==
    IF rest = <<>> THEN <<>>
    ELSE (IF /\ IsRequiringRadialSupport(ps, Head(rest).id)
             /\ ~HasAdequateSupport(conns, Head(rest).id)
          THEN <<Issue("warning", "support")>> ELSE <<>>)
         \o SupportIssues(Tail(rest), ps, conns)

\* _checkStabilityIssues
CheckStabilityIssues(ps, conns) ==
    SupportIssues(ps, ps, conns)
    \o (IF IsThrustvectoringImbalanced(ps)
        THEN <<Issue("warning", "thrust")>> ELSE <<>>)
    \o (IF ExcessiveMassRatio(ps, conns)
        THEN <<Issue("warning", "massRatio")>> ELSE <<>>)

\* validateStructure
ValidateStructure(ps, conns) ==
    IF Len(ps) = 0
    THEN [valid |-> FALSE, issues |-> <<Issue("error", "noParts")>>]
    ELSE LET rootPart == FindRootPart(ps, conns)
             rootIssues == IF IsNull(rootPart)
                           THEN <<Issue("error", "noRoot")>> ELSE <<>>
             connectedPartIds == GetAllConnectedParts(conns, rootPart.id)
             disconnected == \E i \in DOMAIN ps :
                                 ~Includes(connectedPartIds, ps[i].id)
             issues == rootIssues
                       \o (IF disconnected
                           THEN <<Issue("warning", "disconnected")>> ELSE <<>>)
                       \o CheckStabilityIssues(ps, conns)
             hasCriticalIssues == \E i \in DOMAIN issues : issues[i].type = "error"
         IN  [valid |-> ~hasCriticalIssues, issues |-> issues]

(***************************************************************************)
(* State machine                                                           *)
(***************************************************************************)
NoOp == Op("none", NoId, NoId, "", "")

\* the DataValidator after construction: no custom rule, an empty cache
RuleTypes == {"part", "celestial_body", "resource", "tech"}
NoRules == [entityType \in RuleTypes |-> <<>>]
EmptyCache == <<>>
NoCall == [name |-> "none"]
NewValidator ==
    /\ customRules = NoRules
    /\ validationCache = EmptyCache
    /\ call = NoCall
    /\ returned = "undefined"

Init ==
    /\ parts = <<>>
    /\ connections = <<>>
    /\ lastOp = NoOp
    /\ result = "undefined"
    /\ pre = <<>>
    /\ events = <<>>
    /\ nextId = 1
    /\ NewValidator

\* what a handler leaves behind: its run, cut at the publish call whose
\* subscriber throws (throwAt = 0: no subscriber throws)
Commit(op, run, throwAt) ==
    LET out == Publish(run, throwAt)
    IN  /\ connections' = out.connections
        /\ events' = out.events
        /\ result' = out.result
        /\ pre' = connections
        /\ lastOp' = op
        /\ UNCHANGED validatorVars

\* RocketCore adds an instance with a fresh id and publishes part:added;
\* _onPartAdded does nothing
AddPart(kind) ==
    /\ nextId \in PartIds
    /\ nextId' = nextId + 1
    /\ parts' = Append(parts,
                       [id |-> nextId, partType |-> kind.partType,
                        category |-> kind.category, size |-> kind.size,
                        mass |-> kind.mass,
                        position |-> Origin, rotation |-> Origin])
    /\ Commit(Op("addPart", nextId, NoId, "", ""),
              Run(connections, <<>>, "undefined"), 0)

\* RocketCore removes an instance and publishes part:removed, which runs
\* _onPartRemoved
RemovePart(partId, throwAt) ==
    /\ ~IsNull(GetPartById(parts, partId))
    /\ parts' = Splice(parts, PartIndex(parts, partId))
    /\ Commit(Op("partRemoved", partId, NoId, "", ""),
              OnPartRemovedRun(connections, partId), throwAt)
    /\ UNCHANGED nextId

ConnectParts(childId, parentId, attachPointChild, attachPointParent, throwAt) ==
    /\ Commit(Op("connectParts", childId, parentId,
                 attachPointChild, attachPointParent),
              ConnectPartsRun(parts, connections, childId, parentId,
                              attachPointChild, attachPointParent),
              throwAt)
    /\ UNCHANGED <<parts, nextId>>

DisconnectParts(childId, parentId, throwAt) ==
    /\ Commit(Op("disconnectParts", childId, parentId, "", ""),
              DisconnectPartsRun(connections, childId, parentId), throwAt)
    /\ UNCHANGED <<parts, nextId>>

MovePart(partId, newPosition, throwAt) ==
    /\ parts' = MovePartParts(parts, partId, newPosition)
    /\ Commit(Op("movePart", partId, NoId, "", ""),
              VisualRun(parts, connections, partId, "part:moved"), throwAt)
    /\ UNCHANGED nextId

RotatePart(partId, newRotation, throwAt) ==
    /\ parts' = RotatePartParts(parts, partId, newRotation)
    /\ Commit(Op("rotatePart", partId, NoId, "", ""),
              VisualRun(parts, connections, partId, "part:rotated"), throwAt)
    /\ UNCHANGED nextId

\* the publish call whose subscriber throws (0: none): connectParts,
\* disconnectParts, movePart and rotatePart publish twice, the cascade once
\* per removed connection and once more
PublishCalls == 0..2
CascadePublishCalls == 0..(Cardinality(Nodes) + 1)

\* The graph operations never read what kind of part an instance is, so the
\* rocket is built from one kind of part here; every subscriber returns
\* normally.
Next ==
    \/ AddPart(LargeEngine)
    \/ \E partId \in PartIds : RemovePart(partId, 0)
    \/ \E childId \in PartIds, parentId \in PartIds,
          attachPointChild \in Nodes, attachPointParent \in Nodes :
          ConnectParts(childId, parentId, attachPointChild, attachPointParent, 0)
    \/ \E childId \in PartIds, parentId \in PartIds :
          DisconnectParts(childId, parentId, 0)

Spec == Init /\ [][Next]_vars

\* the same operations on rockets built from every kind of part
NextKinds ==
    \/ \E kind \in PartKinds : AddPart(kind)
    \/ \E partId \in PartIds : RemovePart(partId, 0)
    \/ \E childId \in PartIds, parentId \in PartIds,
          attachPointChild \in Nodes, attachPointParent \in Nodes :
          ConnectParts(childId, parentId, attachPointChild, attachPointParent, 0)
    \/ \E childId \in PartIds, parentId \in PartIds :
          DisconnectParts(childId, parentId, 0)

SpecKinds == Init /\ [][NextKinds]_vars

\* a subscriber may throw at any publish call
NextThrow ==
    \/ AddPart(LargeEngine)
    \/ \E partId \in PartIds, throwAt \in CascadePublishCalls :
          RemovePart(partId, throwAt)
    \/ \E childId \in PartIds, parentId \in PartIds,
          attachPointChild \in Nodes, attachPointParent \in Nodes,
          throwAt \in PublishCalls :
          ConnectParts(childId, parentId, attachPointChild, attachPointParent,
                       throwAt)
    \/ \E childId \in PartIds, parentId \in PartIds, throwAt \in PublishCalls :
          DisconnectParts(childId, parentId, throwAt)

SpecThrow == Init /\ [][NextThrow]_vars

\* the visual mutators, which leave the connection list alone, on a rocket
\* of two connected parts
NumVisualIds == 2
InitVisual ==
    /\ parts = [i \in 1..NumVisualIds |->
                   [id |-> i, partType |-> LargeEngine.partType,
                    category |-> LargeEngine.category,
                    size |-> LargeEngine.size, mass |-> LargeEngine.mass,
                    position |-> Origin, rotation |-> Origin]]
    /\ connections = <<Connection(1, "top", 2, "bottom")>>
    /\ lastOp = NoOp
    /\ result = "undefined"
    /\ pre = connections
    /\ events = <<>>
    /\ nextId = NumVisualIds + 1
    /\ NewValidator

NextVisual ==
    \/ \E partId \in PartIds, newPosition \in PartialVectors,
          throwAt \in PublishCalls : MovePart(partId, newPosition, throwAt)
    \/ \E partId \in PartIds, newRotation \in PartialVectors,
          throwAt \in PublishCalls : RotatePart(partId, newRotation, throwAt)

SpecVisual == InitVisual /\ [][NextVisual]_vars

(***************************************************************************)
(* Properties of the connection graph.  The graph notions used to state    *)
(* them are defined on sets, apart from the traversals of the code.        *)
(***************************************************************************)
\* the (instance id, node name) pairs a connection uses
ParentEnd(conn) == <<conn.parent.id, conn.parent.node>>
ChildEnd(conn) == <<conn.child.id, conn.child.node>>

ChildrenOf(conns, id) ==
    { conns[i].child.id : i \in { j \in DOMAIN conns : conns[j].parent.id = id } }

ParentsOf(conns, id) ==
    { conns[i].parent.id : i \in { j \in DOMAIN conns : conns[j].child.id = id } }

RECURSIVE ReachDown(_, _)
ReachDown(conns, S) ==
    LET more == S \cup UNION { ChildrenOf(conns, x) : x \in S }
    IN  IF more = S THEN S ELSE ReachDown(conns, more)

RECURSIVE ReachUp(_, _)
ReachUp(conns, S) ==
    LET more == S \cup UNION { ParentsOf(conns, x) : x \in S }
    IN  IF more = S THEN S ELSE ReachUp(conns, more)

\* the instances below / above id in the parent->child graph
Descendants(conns, id) == ReachDown(conns, ChildrenOf(conns, id))
Ancestors(conns, id) == ReachUp(conns, ParentsOf(conns, id))

Exists(ps, id) == \E i \in DOMAIN ps : ps[i].id = id

NodeUsed(conns, id, node) ==
    \E i \in DOMAIN conns :
        ParentEnd(conns[i]) = <<id, node>> \/ ChildEnd(conns[i]) = <<id, node>>

\* the last operation was connectParts(childId = a, parentId = b, an, bn)
WasConnect == lastOp.name = "connectParts"
WasDisconnect == lastOp.name = "disconnectParts"
WasCascade == lastOp.name = "partRemoved"

\* C1. Node exclusivity: each (instance id, attachment node) pair is an
\* endpoint, on the parent or the child side, of at most one connection.
NodeExclusivity ==
    /\ \A i \in DOMAIN connections :
           ParentEnd(connections[i]) # ChildEnd(connections[i])
    /\ \A i, j \in DOMAIN connections :
           i # j =>
               {ParentEnd(connections[i]), ChildEnd(connections[i])}
               \cap {ParentEnd(connections[j]), ChildEnd(connections[j])} = {}

\* C1 witness: an instance carries two connections, on different nodes, and
\* a connectParts on one of its used nodes has just been refused
NodeExclusivityWitness ==
    /\ WasConnect
    /\ result = "false"
    /\ Exists(parts, lastOp.a) /\ Exists(parts, lastOp.b)
    /\ lastOp.a # lastOp.b
    /\ lastOp.b \notin Descendants(pre, lastOp.a)
    /\ NodeUsed(pre, lastOp.a, lastOp.an)
    /\ ~NodeUsed(pre, lastOp.b, lastOp.bn)
    /\ \E i, j \in DOMAIN connections :
           i # j /\ connections[i].child.id = connections[j].parent.id

\* C2. Acyclicity: no instance is a descendant of itself in the
\* parent->child graph.
Acyclicity ==
    \A id \in PartIds : id \notin Descendants(connections, id)

\* C2 witness: a connectParts that would have closed a cycle through a third
\* instance has just been refused
AcyclicityWitness ==
    /\ WasConnect
    /\ result = "false"
    /\ lastOp.a # lastOp.b
    /\ ~NodeUsed(pre, lastOp.a, lastOp.an)
    /\ ~NodeUsed(pre, lastOp.b, lastOp.bn)
    /\ lastOp.b \in Descendants(pre, lastOp.a)
    /\ lastOp.b \notin ChildrenOf(pre, lastOp.a)

\* C3. Tree shape: every instance is the child endpoint of at most one
\* connection, and at most one connection joins any pair of instances, so
\* that after a successful disconnectParts(child, parent) no connection
\* between that pair remains.
TreeShape ==
    /\ \A i, j \in DOMAIN connections :
           i # j =>
               /\ connections[i].child.id # connections[j].child.id
               /\ {connections[i].parent.id, connections[i].child.id}
                  # {connections[j].parent.id, connections[j].child.id}
    /\ (WasDisconnect /\ result = "true") =>
           ~\E i \in DOMAIN connections :
               {connections[i].parent.id, connections[i].child.id}
               = {lastOp.a, lastOp.b}

\* connectParts' preconditions, on the state it was called in
ConnectPreconditionFails ==
    \/ ~Exists(parts, lastOp.a)
    \/ ~Exists(parts, lastOp.b)
    \/ NodeUsed(pre, lastOp.b, lastOp.bn)
    \/ NodeUsed(pre, lastOp.a, lastOp.an)
    \/ lastOp.a = lastOp.b
    \/ lastOp.b \in Descendants(pre, lastOp.a)

\* C4. Failure atomicity of connect: when connectParts fails a precondition
\* it returns false, the connection list is the one before the call, and
\* nothing is published.
ConnectFailureAtomic ==
    (WasConnect /\ ConnectPreconditionFails) =>
        /\ result = "false"
        /\ connections = pre
        /\ events = <<>>

\* C4 witness: connectParts was refused for the parent's node alone, on a
\* rocket that has connections
ConnectFailureWitness ==
    /\ WasConnect
    /\ Exists(parts, lastOp.a) /\ Exists(parts, lastOp.b)
    /\ NodeUsed(pre, lastOp.b, lastOp.bn)
    /\ ~NodeUsed(pre, lastOp.a, lastOp.an)
    /\ lastOp.a # lastOp.b
    /\ lastOp.b \notin Descendants(pre, lastOp.a)
    /\ result = "false"
    /\ connections = pre

\* the attempt connectParts(a, b) puts P, or an ancestor of P, under C, or
\* under a descendant of C, for some connection P -> C
ClosesCycle ==
    \E i \in DOMAIN pre :
        /\ lastOp.a \in {pre[i].parent.id} \cup Ancestors(pre, pre[i].parent.id)
        /\ lastOp.b \in {pre[i].child.id} \cup Descendants(pre, pre[i].child.id)

\* C5. Cycle rejection: connectParts(id, id) fails, and so does connecting
\* P or an ancestor of P under C or a descendant of C once C is connected
\* under P; the connection list is left as it was.
CycleRejection ==
    (WasConnect /\ (lastOp.a = lastOp.b \/ ClosesCycle)) =>
        /\ result = "false"
        /\ connections = pre

\* C5 witness: with free nodes on both sides, an ancestor of P two levels
\* up was refused as a child of C
CycleRejectionWitness ==
    /\ WasConnect
    /\ result = "false"
    /\ Exists(parts, lastOp.a) /\ Exists(parts, lastOp.b)
    /\ ~NodeUsed(pre, lastOp.a, lastOp.an)
    /\ ~NodeUsed(pre, lastOp.b, lastOp.bn)
    /\ \E i \in DOMAIN pre :
           /\ pre[i].child.id = lastOp.b
           /\ lastOp.a \in Ancestors(pre, pre[i].parent.id)

\* s without its k-th element
Without(s, k) == SubSeq(s, 1, k - 1) \o SubSeq(s, k + 1, Len(s))

\* the positions of the connections of pre that disconnectParts(a, b) names
Matching ==
    { k \in DOMAIN pre :
        pre[k].parent.id = lastOp.b /\ pre[k].child.id = lastOp.a }

\* C6. Disconnect effect: without a connection of that parent and child,
\* disconnectParts returns false, changes nothing and publishes nothing;
\* otherwise it removes exactly one such connection, keeps the others in
\* order, and publishes connection:removed, then rocket:updated(structure).
DisconnectEffect ==
    WasDisconnect =>
        IF Matching = {}
        THEN /\ result = "false"
             /\ connections = pre
             /\ events = <<>>
        ELSE \E k \in Matching :
                 /\ result = "true"
                 /\ connections = Without(pre, k)
                 /\ Len(events) = 2
                 /\ events[1].topic = "connection:removed"
                 /\ events[1].payload = pre[k]
                 /\ events[2].topic = "rocket:updated"
                 /\ events[2].payload = "structure"

\* C6 witness: the second of two connections was disconnected and the first
\* stayed
DisconnectEffectWitness ==
    /\ WasDisconnect
    /\ result = "true"
    /\ Len(pre) = 2
    /\ Matching = {2}
    /\ connections = <<pre[1]>>

\* the connections of pre that touch / do not touch the removed instance
TouchesRemoved(conn) ==
    conn.parent.id = lastOp.a \/ conn.child.id = lastOp.a
NotTouchesRemoved(conn) == ~TouchesRemoved(conn)

\* C7. Cascade removal: a part-removed event for an endpoint of exactly N
\* connections removes exactly those N, publishes N connection:removed and
\* then one rocket:updated(structure) if N >= 1, nothing if N = 0, and
\* leaves no connection with the removed instance.
CascadeRemoval ==
    WasCascade =>
        LET gone == SelectSeq(pre, TouchesRemoved)
            N == Len(gone)
        IN  /\ connections = SelectSeq(pre, NotTouchesRemoved)
            /\ Len(events) = (IF N >= 1 THEN N + 1 ELSE 0)
            /\ \A i \in 1..N :
                   /\ events[i].topic = "connection:removed"
                   /\ events[i].payload = gone[i]
            /\ N >= 1 =>
                   /\ events[N + 1].topic = "rocket:updated"
                   /\ events[N + 1].payload = "structure"
            /\ \A i \in DOMAIN connections : ~TouchesRemoved(connections[i])

\* C7 witness: the removed instance had two connections, one as parent and
\* one as child, and a third connection stayed
CascadeRemovalWitness ==
    /\ WasCascade
    /\ Len(pre) = 3
    /\ Len(connections) = 1
    /\ \E i \in DOMAIN pre : pre[i].parent.id = lastOp.a
    /\ \E i \in DOMAIN pre : pre[i].child.id = lastOp.a

\* C8. Emission after commit: at every publish call of a mutator the
\* connection list is already the one the operation leaves behind.
EmissionAfterCommit ==
    \A i \in DOMAIN events : events[i].seen = connections

\* the connection list the last operation leaves when it runs to its end
CompletePost ==
    IF WasConnect
    THEN Append(pre, Connection(lastOp.b, lastOp.bn, lastOp.a, lastOp.an))
    ELSE IF WasDisconnect
    THEN Without(pre, CHOOSE k \in Matching : \A j \in Matching : k <= j)
    ELSE IF WasCascade
    THEN SelectSeq(pre, NotTouchesRemoved)
    ELSE pre

\* C9. Throwing subscriber: after a subscriber has thrown during a
\* notification, the connection list is the complete pre-state or the
\* complete post-state of the operation.
NoPartialUpdate ==
    result = "threw" => (connections = pre \/ connections = CompletePost)

\* the instances that are a command module or never the child of a
\* connection
Roots ==
    { parts[i].id : i \in { j \in DOMAIN parts :
        \/ parts[j].partType = "commandModule"
        \/ parts[j].category = "command"
        \/ ~\E k \in DOMAIN connections :
               connections[k].child.id = parts[j].id } }

\* C10 as claimed. A valid rocket has exactly one root.
ValidHasOneRoot ==
    ValidateStructure(parts, connections).valid => Cardinality(Roots) = 1

\* C10 as amended. A valid rocket has at least one root, and the instance
\* _findRootPart selects is one of them.
ValidHasRoot ==
    ValidateStructure(parts, connections).valid =>
        /\ Roots # {}
        /\ FindRootPart(parts, connections).id \in Roots

\* C10 witness: a valid rocket without command module whose first instance
\* is a child, with a second root beside the one selected
ValidHasRootWitness ==
    /\ ValidateStructure(parts, connections).valid
    /\ \A i \in DOMAIN parts : parts[i].category # "command"
    /\ parts[1].id \notin Roots
    /\ Cardinality(Roots) >= 2

\* C11. No-root error: a non-empty rocket without command module and
\* without an instance that is a parent in some connection and a child in
\* none is reported by validateStructure with an error 'no root' issue and
\* valid = false.
NoRootError ==
    ( /\ Len(parts) > 0
      /\ \A i \in DOMAIN parts : ~IsCommandModule(parts[i])
      /\ ~\E i \in DOMAIN parts :
            /\ \E k \in DOMAIN connections :
                  connections[k].parent.id = parts[i].id
            /\ ~\E k \in DOMAIN connections :
                  connections[k].child.id = parts[i].id )
    => LET report == ValidateStructure(parts, connections)
       IN  /\ ~report.valid
           /\ \E i \in DOMAIN report.issues :
                 report.issues[i] = Issue("error", "noRoot")

(***************************************************************************)
(* The schema validation engine (DataValidator).  Records are JavaScript   *)
(* objects whose fields may be absent: a field that is undefined or null   *)
(* is Missing, a present value v is Some(v); the same holds for an entity  *)
(* passed to an entry point.  The entities drawn are well typed (a string  *)
(* where the schema has a string, an array where it has an array), so the  *)
(* typeof tests of the validators depend on the field only.  Timestamps    *)
(* (Date.now()) and console output are left out.                           *)
(***************************************************************************)
Missing == <<>>
Some(v) == <<v>>
IsMissing(field) == Len(field) = 0
Value(field) == field[1]

\* field || default
OrElse(field, default) == IF IsMissing(field) THEN default ELSE Value(field)

\* a message: its fixed text, the name it quotes and the number it quotes
Message(text, subject, count) ==
    [text |-> text, subject |-> subject, count |-> count]

\* a path is the sequence of its dotted segments, '' the empty sequence
NoPath == <<>>

\* formatError
FormatError(message, path, code, type) ==
    [type |-> type, code |-> code, path |-> path, message |-> message]

\* this.defaultOptions
DefaultOptions ==
    [enableCache |-> TRUE, validateReferences |-> TRUE, strictMode |-> FALSE,
     autoFix |-> FALSE, maxErrors |-> 100, includeWarnings |-> TRUE,
     includeInfo |-> TRUE]

(***************************************************************************)
(* Custom rules.  A validator function is opaque; it is described by what  *)
(* a call of it does: it throws, returns something that is not an object,  *)
(* or returns an object with the fields valid, type and severity (message, *)
(* path and code are never set by the rules drawn).  "notFunction" is a    *)
(* value that is not a function.                                           *)
(***************************************************************************)
Validator(kind, valid, type, severity) ==
    [kind |-> kind, valid |-> valid, type |-> type, severity |-> severity]

Rule(ruleName, validator) == [name |-> ruleName, validator |-> validator]

\* the position of ruleName among the rules of a type, 0 if it has none
RuleIndex(rules, ruleName) ==
    FindIndex([i \in DOMAIN rules |-> rules[i].name = ruleName])

\* this.customRules[entityType][ruleName] = validator: an existing key
\* keeps its place in the enumeration order, a new one comes last
SetRule(rules, ruleName, validator) ==
    IF RuleIndex(rules, ruleName) = 0
    THEN Append(rules, Rule(ruleName, validator))
    ELSE [rules EXCEPT ![RuleIndex(rules, ruleName)].validator = validator]

\* clearCache
ClearCacheRun == EmptyCache

\* the registry and the cache a call leaves behind
Registry(rules, cache) == [customRules |-> rules, validationCache |-> cache]

\* addCustomValidationRule without the clearCache call
AddCustomValidationRuleNoClear(rules, cache, entityType, ruleName, validator) ==
    IF entityType \notin DOMAIN rules THEN Registry(rules, cache)
    ELSE IF validator.kind = "notFunction" THEN Registry(rules, cache)
    ELSE Registry([rules EXCEPT ![entityType] = SetRule(@, ruleName, validator)],
                  cache)

\* addCustomValidationRule
AddCustomValidationRuleRun(rules, cache, entityType, ruleName, validator) ==
    IF entityType \notin DOMAIN rules THEN Registry(rules, cache)
    ELSE IF validator.kind = "notFunction" THEN Registry(rules, cache)
    ELSE Registry([rules EXCEPT ![entityType] = SetRule(@, ruleName, validator)],
                  ClearCacheRun)

\* removeCustomValidationRule
RemoveCustomValidationRuleRun(rules, cache, entityType, ruleName) ==
    IF entityType \notin DOMAIN rules THEN Registry(rules, cache)
    ELSE IF RuleIndex(rules[entityType], ruleName) = 0
    THEN Registry(rules, cache)
    ELSE Registry([rules EXCEPT ![entityType] =
                      Splice(@, RuleIndex(rules[entityType], ruleName))],
                  ClearCacheRun)

\* the lists a validation pass fills; threw: an exception left the pass
Findings(errors, warnings, infos) ==
    [errors |-> errors, warnings |-> warnings, infos |-> infos, threw |-> FALSE]

\* the finding of a rule's result when result.type is not read
RuleFindingAlwaysError(rule) ==
    FormatError(Message("rule failed", rule.name, 0), NoPath,
                "constraint_violation", "error")

\* the finding _applyCustomRules makes of a rule's result
RuleFinding(rule) ==
    FormatError(Message("rule failed", rule.name, 0), NoPath,
                "constraint_violation", OrElse(rule.validator.type, "error"))

\* one rule of _applyCustomRules, without the try/catch around the call
ApplyRuleNoCatch(rule, lists) ==
    IF rule.validator.kind = "throws" THEN [lists EXCEPT !.threw = TRUE]
    ELSE IF rule.validator.kind # "object" THEN lists
    ELSE IF rule.validator.valid THEN lists
    ELSE IF RuleFinding(rule).type = "error"
         THEN [lists EXCEPT !.errors = Append(@, RuleFinding(rule))]
    ELSE IF RuleFinding(rule).type = "warning"
         THEN [lists EXCEPT !.warnings = Append(@, RuleFinding(rule))]
    ELSE IF RuleFinding(rule).type = "info"
         THEN [lists EXCEPT !.infos = Append(@, RuleFinding(rule))]
    ELSE lists

\* one rule of _applyCustomRules: an exception is caught and logged, a
\* result that is not an object is skipped, a failing result is filed by
\* its type
ApplyRule(rule, lists) ==
    IF rule.validator.kind = "throws" THEN lists
    ELSE IF rule.validator.kind # "object" THEN lists
    ELSE IF rule.validator.valid THEN lists
    ELSE IF RuleFinding(rule).type = "error"
         THEN [lists EXCEPT !.errors = Append(@, RuleFinding(rule))]
    ELSE IF RuleFinding(rule).type = "warning"
         THEN [lists EXCEPT !.warnings = Append(@, RuleFinding(rule))]
    ELSE IF RuleFinding(rule).type = "info"
         THEN [lists EXCEPT !.infos = Append(@, RuleFinding(rule))]
    ELSE lists

\* the loop of _applyCustomRules over Object.entries(rules); an exception
\* that leaves an iteration ends it
RECURSIVE ApplyRulesFrom(_, _, _)
ApplyRulesFrom(rules, i, lists) ==
    IF i > Len(rules) \/ lists.threw THEN lists
    ELSE ApplyRulesFrom(rules, i + 1, ApplyRule(rules[i], lists))

\* _applyCustomRules: this.customRules[entityType] || {}
ApplyCustomRules(rules, entityType, lists) ==
    IF entityType \in DOMAIN rules
    THEN ApplyRulesFrom(rules[entityType], 1, lists)
    ELSE lists

(***************************************************************************)
(* SafeAccess                                                              *)
(***************************************************************************)
\* typeof value === 'object' for the value of a well-typed field
ObjectFields == {"mass", "attachRules", "physical"}
ArrayFields == {"attachNodes", "resources", "color", "parents", "partUnlocks"}

\* applyDefaults on an object: a missing or null field takes the default,
\* an object field is completed recursively, an empty array is replaced
\* by a non-empty array default; the result is a new object
RECURSIVE ApplyDefaults(_, _)
ApplyDefaults(obj, defaults) ==
    [key \in DOMAIN obj |->
        IF key \notin DOMAIN defaults THEN obj[key]
        ELSE IF IsMissing(obj[key]) THEN defaults[key]
        ELSE IF key \in ObjectFields
             THEN Some(ApplyDefaults(Value(obj[key]), Value(defaults[key])))
        ELSE IF /\ key \in ArrayFields
                /\ Len(Value(obj[key])) = 0
                /\ Len(Value(defaults[key])) > 0
             THEN defaults[key]
        ELSE obj[key]]

\* validateRequiredProps: the required properties that are missing, in
\* the order of the list
RECURSIVE MissingProps(_, _)
MissingProps(obj, requiredProps) ==
    IF requiredProps = <<>> THEN <<>>
    ELSE (IF IsMissing(obj[Head(requiredProps)])
          THEN <<Head(requiredProps)>> ELSE <<>>)
         \o MissingProps(obj, Tail(requiredProps))

\* the errors the validators push for the missing required fields
RequiredFieldErrors(obj, requiredFields) ==
    [i \in DOMAIN MissingProps(obj, requiredFields) |->
        FormatError(Message("required field missing",
                            MissingProps(obj, requiredFields)[i], 0),
                    <<MissingProps(obj, requiredFields)[i]>>,
                    "required_field_missing", "error")]

(***************************************************************************)
(* validators/part.js.  A part has the fields below; modules and           *)
(* techRequired are absent from the parts drawn, and so are attach nodes   *)
(* and resource slots (the arrays, when present, are empty); its category  *)
(* is none of engines, fuel_tanks and command.                             *)
(***************************************************************************)
PartFields ==
    {"id", "name", "title", "category", "mass", "cost", "attachNodes",
     "attachRules", "resources"}

\* the defaults validatePart and autoFix apply to a part
PartDefaults(part) ==
    [name |-> Some("Part_" \o OrElse(part.id, "unknown")),
     title |-> Some(OrElse(part.name, "Piece " \o OrElse(part.id, "inconnue"))),
     category |-> Some("unknown"),
     mass |-> Some([dry |-> Some(0), wet |-> Some(0)]),
     cost |-> Some(0),
     attachNodes |-> Some(<<>>),
     attachRules |-> Some([stack |-> Some(TRUE), srfAttach |-> Some(FALSE)]),
     resources |-> Some(<<>>)]

\* validatePartMass
ValidatePartMass(part, lists) ==
    IF IsMissing(part.mass)
    THEN [lists EXCEPT !.errors =
             Append(@, FormatError(Message("field missing", "mass", 0),
                                   <<"mass">>, "required_field_missing",
                                   "error"))]
    ELSE LET mass == Value(part.mass)
             dryErrors ==
                 IF IsMissing(mass.dry)
                 THEN <<FormatError(Message("field missing", "mass.dry", 0),
                                    <<"mass", "dry">>,
                                    "required_field_missing", "error")>>
                 ELSE IF Value(mass.dry) < 0
                 THEN <<FormatError(Message("negative", "mass.dry", 0),
                                    <<"mass", "dry">>, "invalid_value",
                                    "error")>>
                 ELSE <<>>
             \* wet < dry with dry === null compares with 0
             wetWarnings ==
                 IF ~IsMissing(mass.wet) /\ Value(mass.wet) < OrElse(mass.dry, 0)
                 THEN <<FormatError(Message("below mass.dry", "mass.wet", 0),
                                    <<"mass", "wet">>, "invalid_value",
                                    "warning")>>
                 ELSE <<>>
         IN  [lists EXCEPT !.errors = @ \o dryErrors,
                           !.warnings = @ \o wetWarnings]

\* validateTankVolume.  A volume is a number or a numeric string,
\* [type, number]; a resource of a tank a record with its maxAmount, a
\* number.  On a string, volume.toFixed is not a function: the call throws
RECURSIVE TotalCapacity(_)
TotalCapacity(resources) ==
    IF resources = <<>> THEN 0
    ELSE Head(resources).maxAmount + TotalCapacity(Tail(resources))

ValidateTankVolume(tank, lists) ==
    IF IsMissing(tank.volume) THEN lists
    ELSE LET volume == Value(tank.volume)
             typed ==
                 IF volume.type # "number"
                 THEN [lists EXCEPT !.errors =
                          Append(@, FormatError(Message("not a number", "volume", 0),
                                                <<"volume">>, "invalid_type",
                                                "error"))]
                 ELSE IF volume.number <= 0
                 THEN [lists EXCEPT !.errors =
                          Append(@, FormatError(Message("not positive", "volume", 0),
                                                <<"volume">>, "invalid_value",
                                                "error"))]
                 ELSE lists
             totalCapacity == TotalCapacity(OrElse(tank.resources, <<>>))
         IN  IF totalCapacity > 0 /\ totalCapacity # volume.number
             THEN IF volume.type = "number"
                  THEN [typed EXCEPT !.warnings =
                           Append(@, FormatError(
                                         Message("capacity differs", "volume",
                                                 totalCapacity),
                                         <<"volume">>, "constraint_violation",
                                         "warning"))]
                  ELSE [typed EXCEPT !.threw = TRUE]
             ELSE typed

\* validateFuelTank: validateTankType, validateTankResources and
\* validateTankVolume
ValidateFuelTank(tank, lists) ==
    LET typed ==
            IF IsMissing(tank.tankType)
            THEN [lists EXCEPT !.errors =
                     Append(@, FormatError(Message("field missing", "tankType", 0),
                                           <<"tankType">>,
                                           "required_field_missing", "error"))]
            ELSE lists
        resourced ==
            IF IsMissing(tank.resources)
            THEN [typed EXCEPT !.errors =
                     Append(@, FormatError(Message("field missing", "resources", 0),
                                           <<"resources">>,
                                           "required_field_missing", "error"))]
            ELSE IF Len(Value(tank.resources)) = 0
            THEN [typed EXCEPT !.warnings =
                     Append(@, FormatError(Message("empty", "resources", 0),
                                           <<"resources">>, "unusual_value",
                                           "warning"))]
            ELSE typed
    IN  ValidateTankVolume(tank, resourced)

\* the findings of validatePart before the error limit: required fields,
\* mass, the fuel tank checks for a part of category fuel_tanks, then the
\* custom rules; an exception ends the pass (the other checks find nothing
\* in the parts drawn)
PartFindings(validatedPart, rules) ==
    LET massed == ValidatePartMass(validatedPart,
                      Findings(RequiredFieldErrors(validatedPart,
                                   <<"id", "name", "category", "mass">>),
                               <<>>, <<>>))
        checked == IF validatedPart.category = Some("fuel_tanks")
                   THEN ValidateFuelTank(validatedPart, massed)
                   ELSE massed
    IN  IF checked.threw THEN checked
        ELSE ApplyCustomRules(rules, "part", checked)

\* the cache key `${prefix}_${entity.id || 'undefined'}`, 'undefined' too
\* for an entity that is null or undefined
CacheKey(prefix, entity) ==
    <<prefix, IF IsMissing(entity) THEN "undefined"
              ELSE OrElse(Value(entity).id, "undefined")>>

\* validationCache.set(cacheKey, result)
CacheSet(cache, cacheKey, value) ==
    [k \in (DOMAIN cache) \cup {cacheKey} |->
        IF k = cacheKey THEN value ELSE cache[k]]

\* what a validate call does: the value it returns, the cache it leaves,
\* and whether an exception left it instead of a value
Outcome(value, cache, threw) ==
    [value |-> value, validationCache |-> cache, threw |-> threw]

\* the result for an entity that is null or undefined
UndefinedResult(entityName) ==
    [valid |-> FALSE,
     errors |-> <<FormatError(Message("not defined", entityName, 0), NoPath,
                              "required_field_missing", "error")>>,
     warnings |-> <<>>, infos |-> <<>>]

\* the error limit with warnings.push in the place of warnings.unshift
LimitErrorsPush(lists, opts) ==
    IF opts.maxErrors > 0 /\ Len(lists.errors) > opts.maxErrors
    THEN [lists EXCEPT
             !.errors = SubSeq(@, 1, opts.maxErrors),
             !.warnings =
                 Append(@, FormatError(Message("more errors not shown", "",
                                           Len(lists.errors) - opts.maxErrors),
                                       NoPath, "MAX_ERRORS_EXCEEDED",
                                       "warning"))]
    ELSE lists

\* the error limit: the list is cut to maxErrors errors and a warning
\* that counts the others is put in front of the warnings
LimitErrors(lists, opts) ==
    IF opts.maxErrors > 0 /\ Len(lists.errors) > opts.maxErrors
    THEN [lists EXCEPT
             !.errors = SubSeq(@, 1, opts.maxErrors),
             !.warnings =
                 <<FormatError(Message("more errors not shown", "",
                                       Len(lists.errors) - opts.maxErrors),
                               NoPath, "MAX_ERRORS_EXCEEDED", "warning")>>
                 \o @]
    ELSE lists

\* the final result of a validator
BuildResult(lists, opts) ==
    [valid |-> Len(lists.errors) = 0,
     errors |-> lists.errors,
     warnings |-> IF opts.includeWarnings THEN lists.warnings ELSE <<>>,
     infos |-> IF opts.includeInfo THEN lists.infos ELSE <<>>]

\* the part validatePart examines
ValidatedPart(part, opts) ==
    IF opts.autoFix THEN ApplyDefaults(part, PartDefaults(part)) ELSE part

\* validatePart
ValidatePart(part, cache, rules, options) ==
    LET opts == Merge(DefaultOptions, options)
        cacheKey == CacheKey("part", part)
    IN  IF opts.enableCache /\ cacheKey \in DOMAIN cache
        THEN Outcome(cache[cacheKey], cache, FALSE)
        ELSE IF IsMissing(part)
        THEN Outcome(UndefinedResult("part"),
                     IF opts.enableCache
                     THEN CacheSet(cache, cacheKey, UndefinedResult("part"))
                     ELSE cache,
                     FALSE)
        ELSE LET validatedPart == ValidatedPart(Value(part), opts)
                 lists == PartFindings(validatedPart, rules)
                 value == BuildResult(LimitErrors(lists, opts), opts)
             IN  IF lists.threw THEN Outcome("undefined", cache, TRUE)
                 ELSE Outcome(value,
                              IF opts.enableCache /\ ~IsMissing(validatedPart.id)
                              THEN CacheSet(cache, cacheKey, value)
                              ELSE cache,
                              FALSE)

(***************************************************************************)
(* validateResource (validators/celestialBody.js, lines 263-620).          *)
(***************************************************************************)
ResourceFields ==
    {"id", "name", "density", "unitCost", "transferable", "flowMode",
     "color", "specificEnergy"}

\* the defaults validateResource applies
ResourceDefaults(resource) ==
    [name |-> Some("Resource_" \o OrElse(resource.id, "unknown")),
     density |-> Some(0),
     unitCost |-> Some(0),
     transferable |-> Some(TRUE),
     flowMode |-> Some("STAGE_PRIORITY_FLOW"),
     color |-> Some(<<1, 1, 1, 1>>)]

\* an error or a warning about one field
FieldFinding(text, field, code, type) ==
    FormatError(Message(text, field, 0), <<field>>, code, type)

\* validateNumericValues
ValidateNumericValues(resource, lists) ==
    LET density == resource.density
        densityErrors ==
            IF ~IsMissing(density) /\ Value(density) < 0
            THEN <<FieldFinding("negative", "density", "invalid_value", "error")>>
            ELSE <<>>
        densityWarnings ==
            IF ~IsMissing(density) /\ Value(density) = 0
            THEN <<FieldFinding("zero", "density", "unusual_value", "warning")>>
            ELSE <<>>
        unitCostErrors ==
            IF ~IsMissing(resource.unitCost) /\ Value(resource.unitCost) < 0
            THEN <<FieldFinding("negative", "unitCost", "invalid_value", "error")>>
            ELSE <<>>
        specificEnergyErrors ==
            IF /\ ~IsMissing(resource.specificEnergy)
               /\ Value(resource.specificEnergy) < 0
            THEN <<FieldFinding("negative", "specificEnergy", "invalid_value",
                                "error")>>
            ELSE <<>>
    IN  [lists EXCEPT
            !.errors = @ \o densityErrors \o unitCostErrors
                         \o specificEnergyErrors,
            !.warnings = @ \o densityWarnings]

ValidFlowModes ==
    {"NO_FLOW", "ALL_VESSEL", "STAGE_PRIORITY_FLOW", "STAGE_STACK_FLOW",
     "STAGE_LOCKED"}

\* validateFlowProperties
ValidateFlowProperties(resource, lists) ==
    LET flowMode == resource.flowMode
        flowErrors ==
            IF ~IsMissing(flowMode) /\ Value(flowMode) \notin ValidFlowModes
            THEN <<FieldFinding("not a flow mode", "flowMode", "invalid_value",
                                "error")>>
            ELSE <<>>
        flowWarnings ==
            IF /\ ~IsMissing(resource.transferable)
               /\ Value(resource.transferable) = FALSE
               /\ ~IsMissing(flowMode)
               /\ Value(flowMode) \notin {"NO_FLOW", "STAGE_LOCKED"}
            THEN <<FieldFinding("not transferable", "flowMode",
                                "constraint_violation", "warning")>>
            ELSE <<>>
    IN  [lists EXCEPT !.errors = @ \o flowErrors,
                      !.warnings = @ \o flowWarnings]

\* validateColor: the error of each component outside [0, 1]
RECURSIVE ComponentErrors(_, _)
ComponentErrors(color, index) ==
    IF index > Len(color) THEN <<>>
    ELSE (IF color[index] < 0 \/ color[index] > 1
          THEN <<FormatError(Message("between 0 and 1", "color", index - 1),
                             <<"color", ToString(index - 1)>>,
                             "invalid_value", "error")>>
          ELSE <<>>)
         \o ComponentErrors(color, index + 1)

\* validateColor
ValidateColor(resource, lists) ==
    IF IsMissing(resource.color) THEN lists
    ELSE IF Len(Value(resource.color)) \notin {3, 4}
    THEN [lists EXCEPT !.errors =
             Append(@, FieldFinding("3 or 4 values", "color", "invalid_value",
                                    "error"))]
    ELSE [lists EXCEPT !.errors = @ \o ComponentErrors(Value(resource.color), 1)]

Propellants == {"LiquidFuel", "Oxidizer", "MonoPropellant", "SolidFuel"}

\* validateResourceTypeSpecifics; a specificEnergy of 0 is falsy
ValidateResourceTypeSpecifics(resource, lists) ==
    LET id == OrElse(resource.id, "")
        density == OrElse(resource.density, 0)
        electric ==
            IF id = "ElectricCharge"
            THEN (IF OrElse(resource.specificEnergy, 0) = 0
                  THEN <<FieldFinding("recommended", "specificEnergy",
                                      "recommended_field_missing", "warning")>>
                  ELSE <<>>)
                 \o (IF OrElse(resource.flowMode, "") # "ALL_VESSEL"
                     THEN <<FieldFinding("expected ALL_VESSEL", "flowMode",
                                         "unusual_value", "warning")>>
                     ELSE <<>>)
            ELSE <<>>
        propellant ==
            IF id \in Propellants /\ density > 0 /\ 10 * density < 1
            THEN <<FieldFinding("very low", "density", "unusual_value",
                                "warning")>>
            ELSE IF id \in Propellants /\ density > 10
            THEN <<FieldFinding("very high", "density", "unusual_value",
                                "warning")>>
            ELSE <<>>
        solid ==
            IF id = "SolidFuel" /\ OrElse(resource.transferable, TRUE) # FALSE
            THEN <<FieldFinding("expected false", "transferable",
                                "unusual_value", "warning")>>
            ELSE <<>>
    IN  [lists EXCEPT !.warnings = @ \o electric \o propellant \o solid]

\* the findings of validateResource before the error limit
ResourceFindings(validatedResource, rules) ==
    ApplyCustomRules(rules, "resource",
        ValidateResourceTypeSpecifics(validatedResource,
            ValidateColor(validatedResource,
                ValidateFlowProperties(validatedResource,
                    ValidateNumericValues(validatedResource,
                        Findings(RequiredFieldErrors(validatedResource,
                                     <<"id", "name", "density", "unitCost">>),
                                 <<>>, <<>>))))))

\* the resource validateResource examines
ValidatedResource(resource, opts) ==
    IF opts.autoFix THEN ApplyDefaults(resource, ResourceDefaults(resource))
    ELSE resource

\* validateResource
ValidateResource(resource, cache, rules, options) ==
    LET opts == Merge(DefaultOptions, options)
        cacheKey == CacheKey("resource", resource)
    IN  IF opts.enableCache /\ cacheKey \in DOMAIN cache
        THEN Outcome(cache[cacheKey], cache, FALSE)
        ELSE IF IsMissing(resource)
        THEN Outcome(UndefinedResult("resource"),
                     IF opts.enableCache
                     THEN CacheSet(cache, cacheKey, UndefinedResult("resource"))
                     ELSE cache,
                     FALSE)
        ELSE LET validatedResource == ValidatedResource(Value(resource), opts)
                 lists == ResourceFindings(validatedResource, rules)
                 value == BuildResult(LimitErrors(lists, opts), opts)
             IN  IF lists.threw THEN Outcome("undefined", cache, TRUE)
                 ELSE Outcome(value,
                              IF /\ opts.enableCache
                                 /\ ~IsMissing(validatedResource.id)
                              THEN CacheSet(cache, cacheKey, value)
                              ELSE cache,
                              FALSE)

\* DataValidator.validateTech: not implemented, always invalid, no finding
ValidateTech(tech, cache) ==
    Outcome([valid |-> FALSE, errors |-> <<>>, warnings |-> <<>>,
             infos |-> <<>>], cache, FALSE)

\* validate: the dispatcher of index.js (celestial bodies are not drawn)
ValidateRun(obj, type, cache, rules, options) ==
    IF type = "part" THEN ValidatePart(obj, cache, rules, options)
    ELSE IF type = "resource" THEN ValidateResource(obj, cache, rules, options)
    ELSE IF type = "tech" THEN ValidateTech(obj, cache)
    ELSE Outcome([valid |-> FALSE,
                  errors |-> <<FormatError(Message("unsupported type", type, 0),
                                           NoPath, "invalid_value", "error")>>,
                  warnings |-> <<>>, infos |-> <<>>], cache, FALSE)

\* validateMany: `[${index}].${path}` for a finding with a path,
\* `[${index}]` for one whose path is empty
IndexedPath(index, path) ==
    [index |-> index,
     separator |-> IF path = NoPath THEN "" ELSE ".",
     path |-> path]

\* validateMany: a finding of the object at index, as it is aggregated
Indexed(finding, index) ==
    [type |-> finding.type, code |-> finding.code,
     path |-> IndexedPath(index, finding.path),
     message |-> finding.message,
     details |-> [index |-> index]]

IndexedAll(findings, index) ==
    [i \in DOMAIN findings |-> Indexed(findings[i], index)]

\* validateMany: the aggregate after the object at position i (index
\* i - 1) has been validated
ValidateManyStep(acc, out, index, options) ==
    [valid |-> acc.valid /\ out.value.valid,
     errors |-> acc.errors \o IndexedAll(out.value.errors, index),
     warnings |->
         IF "includeWarnings" \in DOMAIN options /\ ~options.includeWarnings
         THEN acc.warnings
         ELSE acc.warnings \o IndexedAll(out.value.warnings, index),
     infos |->
         IF "includeInfo" \in DOMAIN options /\ ~options.includeInfo
         THEN acc.infos
         ELSE acc.infos \o IndexedAll(out.value.infos, index),
     totalCount |-> acc.totalCount]

\* validateMany: objects.forEach
RECURSIVE ValidateManyFrom(_, _, _, _, _, _, _)
ValidateManyFrom(objects, i, type, cache, rules, options, acc) ==
    IF i > Len(objects) THEN Outcome(acc, cache, FALSE)
    ELSE LET out == ValidateRun(objects[i], type, cache, rules, options)
         IN  IF out.threw THEN Outcome("undefined", out.validationCache, TRUE)
             ELSE ValidateManyFrom(objects, i + 1, type, out.validationCache,
                                   rules, options,
                                   ValidateManyStep(acc, out, i - 1, options))

\* validateMany on an array of objects
ValidateManyRun(objects, type, cache, rules, options) ==
    ValidateManyFrom(objects, 1, type, cache, rules, options,
                     [valid |-> TRUE, errors |-> <<>>, warnings |-> <<>>,
                      infos |-> <<>>, totalCount |-> Len(objects)])

(***************************************************************************)
(* The entry points of the validator as actions.  The assembler is left    *)
(* alone.  A rule call records whether it changed the registry and         *)
(* whether the cache held an entry when it was made.                       *)
(***************************************************************************)
AddCustomValidationRule(entityType, ruleName, validator) ==
    LET out == AddCustomValidationRuleRun(customRules, validationCache,
                                          entityType, ruleName, validator)
    IN  /\ customRules' = out.customRules
        /\ validationCache' = out.validationCache
        /\ call' = [name |-> "addCustomValidationRule",
                    entityType |-> entityType, ruleName |-> ruleName,
                    validator |-> validator,
                    changed |-> out.customRules # customRules,
                    cached |-> validationCache # EmptyCache]
        /\ returned' = "undefined"
        /\ UNCHANGED assemblerVars

RemoveCustomValidationRule(entityType, ruleName) ==
    LET out == RemoveCustomValidationRuleRun(customRules, validationCache,
                                             entityType, ruleName)
    IN  /\ customRules' = out.customRules
        /\ validationCache' = out.validationCache
        /\ call' = [name |-> "removeCustomValidationRule",
                    entityType |-> entityType, ruleName |-> ruleName,
                    changed |-> out.customRules # customRules,
                    cached |-> validationCache # EmptyCache]
        /\ returned' = "undefined"
        /\ UNCHANGED assemblerVars

ClearCache ==
    /\ validationCache' = ClearCacheRun
    /\ call' = [name |-> "clearCache"]
    /\ returned' = "undefined"
    /\ UNCHANGED <<customRules, assemblerVars>>

Validate(obj, type, options) ==
    LET out == ValidateRun(obj, type, validationCache, customRules, options)
    IN  /\ validationCache' = out.validationCache
        /\ call' = [name |-> "validate", obj |-> obj, type |-> type,
                    options |-> options, threw |-> out.threw]
        /\ returned' = out.value
        /\ UNCHANGED <<customRules, assemblerVars>>

ValidateMany(objects, type, options) ==
    LET out == ValidateManyRun(objects, type, validationCache, customRules,
                               options)
    IN  /\ validationCache' = out.validationCache
        /\ call' = [name |-> "validateMany", objects |-> objects,
                    type |-> type, options |-> options, threw |-> out.threw]
        /\ returned' = out.value
        /\ UNCHANGED <<customRules, assemblerVars>>

\* the assembler while the validator runs: an empty rocket
NoRocket ==
    /\ parts = <<>>
    /\ connections = <<>>
    /\ lastOp = NoOp
    /\ result = "undefined"
    /\ pre = <<>>
    /\ events = <<>>
    /\ nextId = 1

InitValidator == NoRocket /\ NewValidator

(***************************************************************************)
(* The entities, rules and options drawn.                                  *)
(***************************************************************************)
NoEntity == Missing
NoOptions == <<>>

NewPart(id, name, mass) ==
    [id |-> id, name |-> name, title |-> Missing,
     category |-> Some("structural"), mass |-> mass, cost |-> Missing,
     attachNodes |-> Missing, attachRules |-> Missing, resources |-> Missing]

NewResource(id, name, density, color) ==
    [id |-> id, name |-> name, density |-> density, unitCost |-> Some(1),
     transferable |-> Missing, flowMode |-> Missing, color |-> color,
     specificEnergy |-> Missing]

Mass(dry, wet) == Some([dry |-> dry, wet |-> wet])

\* a sound mass, and one whose wet mass is under the dry mass (a warning)
SoundMass == Mass(Some(2), Some(3))
LightWetMass == Mass(Some(2), Some(1))

\* validators that throw, return true, pass, and fail with a type
Throwing == Validator("throws", FALSE, Missing, Missing)
ReturningTrue == Validator("nonObject", FALSE, Missing, Missing)
NotAFunction == Validator("notFunction", FALSE, Missing, Missing)
Passing == Validator("object", TRUE, Missing, Missing)
Failing(type) == Validator("object", FALSE, type, Missing)
FailingWithSeverity(severity) == Validator("object", FALSE, Missing, severity)

(***************************************************************************)
(* The cache: parts that share one id or have none, a resource, and the    *)
(* null entity, validated with the cache on and off, while a rule is       *)
(* registered and removed.                                                 *)
(***************************************************************************)
CachedParts ==
    { Some(NewPart(id, name, SoundMass)) :
        id \in {Missing, Some("p1")}, name \in {Missing, Some("n")} }

CachedResources ==
    { Some(NewResource(Some("LiquidFuel"), Some("n"), density, Missing)) :
        density \in {Some(0), Some(5)} }

CachedEntities(type) ==
    IF type = "part" THEN CachedParts \cup {NoEntity}
    ELSE IF type = "resource" THEN CachedResources \cup {NoEntity}
    ELSE {NoEntity}

CachedTypes == {"part", "resource", "tech"}
CacheOptions == {NoOptions, [enableCache |-> FALSE]}
CacheValidators == {Failing(Some("error")), Passing}

NextCache ==
    \/ \E entityType \in CachedTypes \cup {"unknown"},
          validator \in CacheValidators \cup {NotAFunction} :
          AddCustomValidationRule(entityType, "r1", validator)
    \/ \E entityType \in CachedTypes \cup {"unknown"} :
          RemoveCustomValidationRule(entityType, "r1")
    \/ ClearCache
    \/ \E type \in CachedTypes \cup {"unknown"},
          options \in CacheOptions :
          \E obj \in CachedEntities(type) : Validate(obj, type, options)

SpecCache == InitValidator /\ [][NextCache]_vars

\* the results validation computes from the content of obj itself under
\* the current rules
OwnResults(obj, type) ==
    { ValidateRun(obj, type, EmptyCache, customRules, options).value :
        options \in CacheOptions }

\* C12. Cache coherence by content: with the cache enabled, the result a
\* validate call returns for an entity is a result computed from that
\* entity's content, never one cached for other content with the same id
\* or for the null entity.
CacheCoherence ==
    ( /\ call.name = "validate"
      /\ Merge(DefaultOptions, call.options).enableCache )
    => returned \in OwnResults(call.obj, call.type)

WasRuleChange ==
    /\ call.name \in {"addCustomValidationRule", "removeCustomValidationRule"}
    /\ call.changed

\* the cached result is one validation computes under the current rules
\* for an entity of that cache key
UnderCurrentRules(cacheKey) ==
    \E obj \in CachedEntities(cacheKey[1]), options \in CacheOptions :
        /\ CacheKey(cacheKey[1], obj) = cacheKey
        /\ validationCache[cacheKey] =
               ValidateRun(obj, cacheKey[1], EmptyCache, customRules,
                           options).value

\* C13. Rule changes invalidate the cache: after an addCustomValidationRule
\* or removeCustomValidationRule call that changed the registry the cache
\* is empty, and every result the cache holds was computed under the
\* current rules, so no validate call returns one of an earlier rule set.
RuleChangeClearsCache ==
    /\ WasRuleChange => validationCache = EmptyCache
    /\ \A cacheKey \in DOMAIN validationCache : UnderCurrentRules(cacheKey)

\* C13 witness: a rule change found a result in the cache
RuleChangeClearsCacheWitness ==
    /\ WasRuleChange
    /\ call.cached
    /\ validationCache = EmptyCache

(***************************************************************************)
(* The rules: validators of every kind registered under two names for      *)
(* parts, re-registered and removed, between validations of a sound part,  *)
(* of a part with the same id that lacks its name, and of the null entity. *)
(***************************************************************************)
RuleNames == {"r1", "r2"}

RuleValidators ==
    {Throwing, ReturningTrue, Passing, Failing(Missing),
     Failing(Some("error")), Failing(Some("warning")), Failing(Some("info")),
     FailingWithSeverity(Some("warning"))}

SoundPart == Some(NewPart(Some("p1"), Some("n"), SoundMass))
NamelessPart == Some(NewPart(Some("p1"), Missing, LightWetMass))

RuledParts == {SoundPart, NamelessPart, NoEntity}

NextRules ==
    \/ \E ruleName \in RuleNames, validator \in RuleValidators :
          AddCustomValidationRule("part", ruleName, validator)
    \/ \E ruleName \in RuleNames :
          RemoveCustomValidationRule("part", ruleName)
    \/ \E obj \in RuledParts, options \in CacheOptions :
          Validate(obj, "part", options)

SpecRules == InitValidator /\ [][NextRules]_vars

\* the registry and the cache after addCustomValidationRule(entityType,
\* ruleName, validator) and then removeCustomValidationRule(entityType,
\* ruleName)
RoundTrip(entityType, ruleName, validator) ==
    LET added == AddCustomValidationRuleRun(customRules, validationCache,
                                            entityType, ruleName, validator)
    IN  RemoveCustomValidationRuleRun(added.customRules,
                                      added.validationCache,
                                      entityType, ruleName)

\* C14. Rule round trip: whatever is registered, after a rule is added
\* and then removed under one name the validator returns for every entity
\* the result it returned before.
RuleRoundTrip ==
    \A ruleName \in RuleNames, validator \in RuleValidators :
        \A obj \in RuledParts, options \in CacheOptions :
            ValidateRun(obj, "part",
                        RoundTrip("part", ruleName, validator).validationCache,
                        RoundTrip("part", ruleName, validator).customRules,
                        options).value
            = ValidateRun(obj, "part", validationCache, customRules,
                          options).value

\* the rules whose validator neither throws nor returns a non-object
RECURSIVE WellBehaved(_)
WellBehaved(rules) ==
    IF rules = <<>> THEN <<>>
    ELSE (IF Head(rules).validator.kind \in {"throws", "nonObject"}
          THEN <<>> ELSE <<Head(rules)>>)
         \o WellBehaved(Tail(rules))

WellBehavedRules ==
    [entityType \in DOMAIN customRules |-> WellBehaved(customRules[entityType])]

\* C15. Rule exception containment: a validation pass with rules that
\* throw or return a non-object does not throw and returns what it
\* returns without those rules: they add no finding, and the findings of
\* the built-in checks and of the other rules are all there.
RuleExceptionContained ==
    /\ call.name = "validate" => ~call.threw
    /\ \A obj \in RuledParts, options \in CacheOptions :
          /\ ~ValidateRun(obj, "part", validationCache, customRules,
                          options).threw
          /\ ValidateRun(obj, "part", validationCache, customRules,
                         options).value
             = ValidateRun(obj, "part", validationCache, WellBehavedRules,
                           options).value

\* C15 witness: a part without name validated afresh under a rule that
\* throws followed by a rule that fails: the call returned the error of
\* the built-in check and then the error of the second rule
RuleExceptionContainedWitness ==
    /\ call.name = "validate"
    /\ ~call.threw
    /\ call.obj = NamelessPart
    /\ call.options = [enableCache |-> FALSE]
    /\ Len(customRules["part"]) = 2
    /\ customRules["part"][1].validator = Throwing
    /\ customRules["part"][2].validator = Failing(Missing)
    /\ Len(returned.errors) = 2
    /\ returned.errors[1].path = <<"name">>
    /\ returned.errors[2] = RuleFinding(customRules["part"][2])

\* the lists _applyCustomRules leaves after the first n part rules
AfterRules(n) ==
    ApplyRulesFrom(SubSeq(customRules["part"], 1, n), 1,
                   Findings(<<>>, <<>>, <<>>))

\* the part rules without the i-th
RulesWithout(i) == [customRules EXCEPT !["part"] = Splice(@, i)]

\* the i-th part rule appends one finding of its own to the list of
\* severity and nothing to the others, and with a severity other than
\* error it leaves valid as it is without the rule
FiledUnder(i, severity) ==
    LET finding == [RuleFinding(customRules["part"][i])
                       EXCEPT !.type = severity]
        one(list) == IF list = severity THEN <<finding>> ELSE <<>>
    IN  /\ AfterRules(i).errors = AfterRules(i - 1).errors \o one("error")
        /\ AfterRules(i).warnings = AfterRules(i - 1).warnings \o one("warning")
        /\ AfterRules(i).infos = AfterRules(i - 1).infos \o one("info")
        /\ severity # "error" =>
              \A obj \in RuledParts :
                  ValidateRun(obj, "part", EmptyCache, customRules,
                              NoOptions).value.valid
                  = ValidateRun(obj, "part", EmptyCache, RulesWithout(i),
                                NoOptions).value.valid

IsFailing(validator) == validator.kind = "object" /\ ~validator.valid

\* C16 as claimed. Custom-rule severity: a rule that returns {valid:
\* false, severity: s} appends exactly one finding to the list of s, and
\* with s warning or info leaves an otherwise valid result valid.
SeverityFiled ==
    \A i \in DOMAIN customRules["part"] :
        ( /\ IsFailing(customRules["part"][i].validator)
          /\ ~IsMissing(customRules["part"][i].validator.severity) )
        => FiledUnder(i, Value(customRules["part"][i].validator.severity))

\* C16 as amended. A rule that returns {valid: false, type: s} appends
\* exactly one finding to the list of s, and with s warning or info
\* leaves an otherwise valid result valid.
TypeFiled ==
    \A i \in DOMAIN customRules["part"] :
        ( /\ IsFailing(customRules["part"][i].validator)
          /\ ~IsMissing(customRules["part"][i].validator.type) )
        => FiledUnder(i, Value(customRules["part"][i].validator.type))

\* C16 witness: a sound part validated afresh under one rule that fails
\* with type warning is valid, with the rule's finding as its one warning
TypeFiledWitness ==
    /\ call.name = "validate"
    /\ call.obj = SoundPart
    /\ call.options = [enableCache |-> FALSE]
    /\ Len(customRules["part"]) = 1
    /\ customRules["part"][1].validator = Failing(Some("warning"))
    /\ returned.valid
    /\ returned.errors = <<>>
    /\ returned.warnings = <<RuleFinding(customRules["part"][1])>>
    /\ returned.warnings[1].type = "warning"

(***************************************************************************)
(* Batches: lists of up to MaxBatch parts (with one id or none, with and   *)
(* without name, or null) and of tech nodes, validated by validateMany.    *)
(***************************************************************************)
MaxBatch == 2

Batches(type) ==
    UNION { [1..n -> CachedEntities(type)] : n \in 1..MaxBatch }

BatchOptions == {NoOptions, [includeWarnings |-> FALSE]}

NextMany ==
    \/ \E type \in {"part", "tech"}, options \in BatchOptions :
          \E objects \in Batches(type) : ValidateMany(objects, type, options)
    \/ ClearCache

SpecMany == InitValidator /\ [][NextMany]_vars

\* the result of the i-th object of the batch validated on its own
OnItsOwn(i) ==
    ValidateRun(call.objects[i], call.type, EmptyCache, customRules,
                call.options).value

\* the findings of one list that the objects of the batch have on their
\* own, from the i-th object on, each with "[index]." put before its path
RECURSIVE PrefixedFrom(_, _)
PrefixedFrom(list, i) ==
    IF i > Len(call.objects) THEN <<>>
    ELSE [n \in DOMAIN OnItsOwn(i)[list] |->
             [type |-> OnItsOwn(i)[list][n].type,
              code |-> OnItsOwn(i)[list][n].code,
              path |-> [index |-> i - 1, separator |-> ".",
                        path |-> OnItsOwn(i)[list][n].path],
              message |-> OnItsOwn(i)[list][n].message,
              details |-> [index |-> i - 1]]]
         \o PrefixedFrom(list, i + 1)

\* C17. validateMany aggregation: the batch is valid iff every object is
\* valid on its own, and the findings are those the objects have on their
\* own, the path of each finding of object i prefixed with "[i].".
ValidateManyAggregates ==
    call.name = "validateMany" =>
        /\ returned.valid =
              \A i \in DOMAIN call.objects : OnItsOwn(i).valid
        /\ returned.errors = PrefixedFrom("errors", 1)
        /\ returned.warnings = PrefixedFrom("warnings", 1)
        /\ returned.infos = PrefixedFrom("infos", 1)

(***************************************************************************)
(* The error limit: parts and resources with up to three missing fields    *)
(* and a warning, validated afresh under a limit of 0, 1, 2 or 100         *)
(* errors, with and without a rule that adds an error.                     *)
(***************************************************************************)
MaxLimit == 2

\* createDataValidator: Math.max(0, options.maxErrors)
ClampMaxErrors(maxErrors) == IF maxErrors > 0 THEN maxErrors ELSE 0

LimitOptions ==
    {[enableCache |-> FALSE]}
    \cup {[enableCache |-> FALSE, maxErrors |-> ClampMaxErrors(maxErrors)] :
            maxErrors \in -1..MaxLimit}

LimitedParts ==
    { Some(NewPart(id, name, mass)) :
        id \in {Missing, Some("p1")}, name \in {Missing, Some("n")},
        mass \in {SoundMass, LightWetMass, Missing} }

LimitedResources ==
    { Some(NewResource(id, name, density, Missing)) :
        id \in {Missing, Some("LiquidFuel")}, name \in {Missing, Some("n")},
        density \in {Some(0), Some(5), Missing} }

LimitedEntities(type) ==
    IF type = "part" THEN LimitedParts \cup {NoEntity}
    ELSE LimitedResources \cup {NoEntity}

NextLimit ==
    \/ \E type \in {"part", "resource"}, options \in LimitOptions :
          \E obj \in LimitedEntities(type) : Validate(obj, type, options)
    \/ \E entityType \in {"part", "resource"} :
          AddCustomValidationRule(entityType, "r1", Failing(Some("error")))
    \/ \E entityType \in {"part", "resource"} :
          RemoveCustomValidationRule(entityType, "r1")

SpecLimit == InitValidator /\ [][NextLimit]_vars

\* the findings the validate call collected before the limit
Collected ==
    IF IsMissing(call.obj)
    THEN Findings(UndefinedResult(call.type).errors, <<>>, <<>>)
    ELSE IF call.type = "part"
    THEN PartFindings(Value(call.obj), customRules)
    ELSE ResourceFindings(Value(call.obj), customRules)

\* the warning that reports n suppressed errors
Suppressed(n) ==
    FormatError(Message("more errors not shown", "", n), NoPath,
                "MAX_ERRORS_EXCEEDED", "warning")

\* C18. maxErrors truncation: a pass that collected more than maxErrors
\* errors returns the first maxErrors of them, valid = false, and after
\* the warnings collected one warning that counts the suppressed errors;
\* a pass that collected no more returns errors and warnings as collected.
MaxErrorsTruncates ==
    call.name = "validate" =>
        LET maxErrors == Merge(DefaultOptions, call.options).maxErrors
            collected == Len(Collected.errors)
        IN  IF collected > maxErrors
            THEN /\ returned.errors = SubSeq(Collected.errors, 1, maxErrors)
                 /\ ~returned.valid
                 /\ returned.warnings =
                       Append(Collected.warnings,
                              Suppressed(collected - maxErrors))
            ELSE /\ returned.errors = Collected.errors
                 /\ returned.warnings = Collected.warnings

\* C18 as amended. With a limit above 0, a pass that collected more than
\* maxErrors errors returns the first maxErrors of them, valid = false,
\* and the warning that counts the suppressed errors in front of the
\* warnings collected; with a limit of 0 or no more errors than the limit
\* it returns errors and warnings as collected.
LimitApplied ==
    call.name = "validate" =>
        LET maxErrors == Merge(DefaultOptions, call.options).maxErrors
            collected == Len(Collected.errors)
        IN  IF maxErrors > 0 /\ collected > maxErrors
            THEN /\ returned.errors = SubSeq(Collected.errors, 1, maxErrors)
                 /\ ~returned.valid
                 /\ returned.warnings =
                       <<Suppressed(collected - maxErrors)>>
                       \o Collected.warnings
            ELSE /\ returned.errors = Collected.errors
                 /\ returned.warnings = Collected.warnings
                 /\ returned.valid = (collected = 0)

\* C18 witness: a pass that collected a warning and more errors than a
\* limit above 0 returned the counting warning and then that warning
LimitAppliedWitness ==
    /\ call.name = "validate"
    /\ Merge(DefaultOptions, call.options).maxErrors > 0
    /\ Len(Collected.errors) > Merge(DefaultOptions, call.options).maxErrors
    /\ Len(Collected.warnings) > 0
    /\ Len(returned.errors) = Merge(DefaultOptions, call.options).maxErrors
    /\ Len(returned.warnings) = Len(Collected.warnings) + 1
    /\ returned.warnings[1].code = "MAX_ERRORS_EXCEEDED"

(***************************************************************************)
(* DataValidator.autoFix.  An attach node is null (Missing) or a record    *)
(* of id, position and orientation; a vector is an array of numbers.  A    *)
(* tech node has the fields id, title, cost, parents and partUnlocks.      *)
(***************************************************************************)
AttachNode(position, orientation) ==
    Some([id |-> Some("top"), position |-> position,
          orientation |-> orientation])

\* !Array.isArray(vector) || vector.length !== 3
IsInvalidVector(vector) == IsMissing(vector) \/ Len(Value(vector)) # 3

Change(path, oldValue, newValue) ==
    [path |-> path, oldValue |-> oldValue, newValue |-> newValue]

\* autoFix: the node at position i of attachNodes.map (index i - 1) with
\* its position and orientation corrected; null stays null
FixedNode(node) ==
    IF IsMissing(node) THEN Missing
    ELSE Some([Value(node) EXCEPT
                  !.position = IF IsInvalidVector(@)
                               THEN Some(<<0, 0, 0>>) ELSE @,
                  !.orientation = IF IsInvalidVector(@)
                                  THEN Some(<<0, 1, 0>>) ELSE @])

\* autoFix: the changes pushed for the node at position i
NodeChanges(node, i) ==
    IF IsMissing(node) THEN <<>>
    ELSE (IF IsInvalidVector(Value(node).position)
          THEN <<Change(<<"attachNodes", ToString(i - 1), "position">>,
                        Value(node).position, Some(<<0, 0, 0>>))>>
          ELSE <<>>)
         \o (IF IsInvalidVector(Value(node).orientation)
             THEN <<Change(<<"attachNodes", ToString(i - 1), "orientation">>,
                           Value(node).orientation, Some(<<0, 1, 0>>))>>
             ELSE <<>>)

\* autoFix: attachNodes.map(...).filter(node => node !== null)
RECURSIVE FixedNodesFrom(_, _)
FixedNodesFrom(nodes, i) ==
    IF i > Len(nodes) THEN <<>>
    ELSE (IF IsMissing(nodes[i]) THEN <<>> ELSE <<FixedNode(nodes[i])>>)
         \o FixedNodesFrom(nodes, i + 1)

RECURSIVE NodeChangesFrom(_, _)
NodeChangesFrom(nodes, i) ==
    IF i > Len(nodes) THEN <<>>
    ELSE NodeChanges(nodes[i], i) \o NodeChangesFrom(nodes, i + 1)

\* autoFix: a field that is still null after the defaults becomes []
NullToEmpty(entity, field) ==
    IF IsMissing(entity[field])
    THEN <<Change(<<field>>, Missing, Some(<<>>))>> ELSE <<>>

\* the defaults autoFix applies to a resource, a celestial body and a
\* tech node
ResourceFixDefaults(resource) ==
    [name |-> Some("Resource_" \o OrElse(resource.id, "unknown")),
     density |-> Some(1),
     unitCost |-> Some(0),
     transferable |-> Some(TRUE)]

BodyFixDefaults(body) ==
    [name |-> Some("Body_" \o OrElse(body.id, "unknown")),
     type |-> Some("planet"),
     physical |-> Some([radius |-> Some(0), mass |-> Some(0),
                        gravity |-> Some(0)])]

TechFixDefaults(tech) ==
    [title |-> Some("Tech_" \o OrElse(tech.id, "unknown")),
     cost |-> Some(0),
     parents |-> Some(<<>>),
     partUnlocks |-> Some(<<>>)]

Fix(entity, changes) ==
    [entity |-> entity, fixed |-> Len(changes) > 0, changes |-> changes]

\* autoFix for a part
AutoFixPart(part) ==
    LET defaulted == ApplyDefaults(part, PartDefaults(part))
        nulls == NullToEmpty(defaulted, "attachNodes")
                 \o NullToEmpty(defaulted, "resources")
        nodes == OrElse(defaulted.attachNodes, <<>>)
    IN  Fix(Some([defaulted EXCEPT
                     !.attachNodes = Some(FixedNodesFrom(nodes, 1)),
                     !.resources = Some(OrElse(@, <<>>))]),
            nulls \o NodeChangesFrom(nodes, 1))

\* autoFix for a tech node
AutoFixTech(tech) ==
    LET defaulted == ApplyDefaults(tech, TechFixDefaults(tech))
    IN  Fix(Some([defaulted EXCEPT !.parents = Some(OrElse(@, <<>>)),
                                   !.partUnlocks = Some(OrElse(@, <<>>))]),
            NullToEmpty(defaulted, "parents")
            \o NullToEmpty(defaulted, "partUnlocks"))

\* autoFix
AutoFixRun(entity, type) ==
    IF IsMissing(entity) THEN Fix(Missing, <<>>)
    ELSE IF type = "part" THEN AutoFixPart(Value(entity))
    ELSE IF type = "celestial_body"
    THEN Fix(Some(ApplyDefaults(Value(entity),
                                BodyFixDefaults(Value(entity)))), <<>>)
    ELSE IF type = "resource"
    THEN Fix(Some(ApplyDefaults(Value(entity),
                                ResourceFixDefaults(Value(entity)))), <<>>)
    ELSE IF type = "tech" THEN AutoFixTech(Value(entity))
    ELSE Fix(entity, <<>>)

\* the entity a validator examines when opts.autoFix is set
ValidatedEntity(entity, type) ==
    IF type = "part" THEN Some(ValidatedPart(Value(entity), [autoFix |-> TRUE]))
    ELSE Some(ValidatedResource(Value(entity), [autoFix |-> TRUE]))

AutoFix(entity, type) ==
    /\ call' = [name |-> "autoFix", entity |-> entity, type |-> type]
    /\ returned' = AutoFixRun(entity, type)
    /\ UNCHANGED <<customRules, validationCache, assemblerVars>>

\* the applyDefaults call of validatePart and validateResource under
\* opts.autoFix, with the completed entity as its value
ApplyValidatorDefaults(entity, type) ==
    /\ call' = [name |-> "applyDefaults", entity |-> entity, type |-> type]
    /\ returned' = [entity |-> ValidatedEntity(entity, type)]
    /\ UNCHANGED <<customRules, validationCache, assemblerVars>>

(***************************************************************************)
(* The entities autoFix and the validators' defaults are applied to.       *)
(***************************************************************************)
NewBody(id, name, physical) ==
    [id |-> id, name |-> name, type |-> Missing, physical |-> physical]

NewTech(id, title, parents) ==
    [id |-> id, title |-> title, cost |-> Missing, parents |-> parents,
     partUnlocks |-> Missing]

SoundNode == AttachNode(Some(<<0, 1, 0>>), Some(<<0, 1, 0>>))
FlatNode == AttachNode(Some(<<0, 1>>), Some(<<0, 1, 0>>))
BareNode == AttachNode(Some(<<0, 1, 0>>), Missing)
NullNode == Missing

NodeLists ==
    {Missing, Some(<<>>), Some(<<SoundNode>>), Some(<<FlatNode>>),
     Some(<<BareNode>>), Some(<<NullNode, SoundNode>>),
     Some(<<SoundNode, FlatNode>>)}

FixableParts ==
    {Some([NewPart(Some("p1"), name, mass) EXCEPT !.attachNodes = nodes]) :
        name \in {Missing, Some("Tank")},
        mass \in {Missing, Mass(Some(2), Missing), SoundMass},
        nodes \in NodeLists}

FixableResources ==
    {Some(NewResource(Some("r1"), name, density, color)) :
        name \in {Missing, Some("Fuel")},
        density \in {Missing, Some(5)},
        color \in {Missing, Some(<<>>), Some(<<1, 0, 0>>)}}

FixableBodies ==
    {Some(NewBody(Some("b1"), name, physical)) :
        name \in {Missing, Some("Kerbin")},
        physical \in {Missing,
                      Some([radius |-> Some(6), mass |-> Missing,
                            gravity |-> Some(9)])}}

FixableTechs ==
    {Some(NewTech(Some("t1"), title, parents)) :
        title \in {Missing, Some("Rocketry")},
        parents \in {Missing, Some(<<>>), Some(<<"start">>)}}

FixTypes == {"part", "celestial_body", "resource", "tech", "unknown"}

Fixable(type) ==
    {NoEntity} \cup
    (IF type = "part" THEN FixableParts
     ELSE IF type = "celestial_body" THEN FixableBodies
     ELSE IF type = "resource" THEN FixableResources
     ELSE IF type = "tech" THEN FixableTechs
     ELSE FixableTechs)

NextAutoFix ==
    \/ \E type \in FixTypes : \E entity \in Fixable(type) :
         AutoFix(entity, type)
    \/ \E type \in {"part", "resource"} :
         \E entity \in Fixable(type) \ {NoEntity} :
           ApplyValidatorDefaults(entity, type)

SpecAutoFix == InitValidator /\ [][NextAutoFix]_vars

(***************************************************************************)
(* C19.  Completing an entity with defaults leaves every present field as  *)
(* it was.                                                                 *)
(***************************************************************************)
\* the fields of the input that are present keep their value in the
\* output; an object field is compared field by field
RECURSIVE Preserved(_, _)
Preserved(input, output) ==
    \A key \in DOMAIN input :
        \/ IsMissing(input[key])
        \/ /\ key \in DOMAIN output
           /\ ~IsMissing(output[key])
           /\ IF key \in ObjectFields
              THEN Preserved(Value(input[key]), Value(output[key]))
              ELSE output[key] = input[key]

WasCompleted ==
    /\ call.name \in {"autoFix", "applyDefaults"}
    /\ ~IsMissing(call.entity)
    /\ ~IsMissing(returned.entity)

\* C19: whenever autoFix or a validator's applyDefaults has completed an
\* entity, every field that was present and non-null in the input,
\* an empty array included, has the same value in the completed entity,
\* nested objects being compared field by field
DefaultsDoNotOverwrite ==
    WasCompleted => Preserved(Value(call.entity), Value(returned.entity))

(***************************************************************************)
(* C20.  The change report of autoFix accounts for every difference.       *)
(***************************************************************************)
\* the top-level fields whose value differs between input and output
DifferingFields(input, output) ==
    {key \in DOMAIN input : output[key] # input[key]}

\* the top-level fields the change report names
ReportedFields(changes) ==
    {changes[i].path[1] : i \in DOMAIN changes}

\* C20: after autoFix, every field of the returned entity that differs
\* from the input is named by an entry of changes, and fixed is true
\* exactly when the returned entity differs from the input
ChangeReportComplete ==
    call.name = "autoFix" =>
        /\ returned.fixed <=> (returned.entity # call.entity)
        /\ (~IsMissing(call.entity) /\ ~IsMissing(returned.entity)) =>
              DifferingFields(Value(call.entity), Value(returned.entity))
                  \subseteq ReportedFields(returned.changes)

(***************************************************************************)
(* C28.  Connections only join instances of the rocket.                    *)
(***************************************************************************)
\* C28: in every reachable state both ends of every connection are
\* instances present in the part list
NoDanglingEdges ==
    \A i \in DOMAIN connections :
        /\ Exists(parts, connections[i].parent.id)
        /\ Exists(parts, connections[i].child.id)

(***************************************************************************)
(* C29.  The valid flag of a result agrees with its error list.            *)
(***************************************************************************)
\* C29: every result the validate dispatcher returns, whatever the type
\* and the entity, has valid = TRUE exactly when its errors list is empty
ValidAgreesWithErrors ==
    (call.name = "validate" /\ ~call.threw)
    => (returned.valid <=> Len(returned.errors) = 0)

(***************************************************************************)
(* C30.  One part and one resource that never change, validated under      *)
(* varying options with no custom rule.                                    *)
(***************************************************************************)
UnchangedEntities(type) ==
    IF type = "part"
    THEN {Some(NewPart(Some("p1"), Missing, LightWetMass))}
    ELSE {Some(NewResource(Some("r1"), Missing, Missing, Missing))}

VaryingOptions ==
    {[enableCache |-> enableCache, includeWarnings |-> includeWarnings,
      autoFix |-> autoFix, maxErrors |-> maxErrors] :
        enableCache \in BOOLEAN, includeWarnings \in BOOLEAN,
        autoFix \in BOOLEAN, maxErrors \in {1, DefaultOptions.maxErrors}}

NextOptions ==
    \E type \in {"part", "resource"}, options \in VaryingOptions :
        \E obj \in UnchangedEntities(type) : Validate(obj, type, options)

SpecOptions == InitValidator /\ [][NextOptions]_vars

\* the result a validator with caching disabled returns
Uncached(obj, type, options) ==
    ValidateRun(obj, type, EmptyCache, customRules,
                Merge(options, [enableCache |-> FALSE])).value

\* C30: a validate call returns the result a validator with caching
\* disabled returns for the same entity and options, and a call with
\* enableCache = FALSE leaves the cache as it was
CacheTransparentStep ==
    call'.name = "validate" =>
        /\ returned' = Uncached(call'.obj, call'.type, call'.options)
        /\ ~call'.options.enableCache => validationCache' = validationCache

CacheTransparent == [][CacheTransparentStep]_vars

(***************************************************************************)
(* rocketPhysics.js.  Numbers are fixed-point integers: thrust in N, mass  *)
(* in kg, specific impulse in s, altitude and radius in m, gravity in      *)
(* mm/s2, a thrust-to-weight ratio in thousandths, a delta-v in m/s and a  *)
(* burn time in s; a quotient is rounded down.                             *)
(***************************************************************************)
KERBIN_GRAVITY == 9810
KERBIN_ATMOSPHERE_HEIGHT == 70000
KERBIN_RADIUS == 600000

\* distances enter the inverse-square law in units of 10 km
Scaled(metres) == metres \div 10000

\* _getEngineData and _getPartData: the same data for every id
GetEngineData(engineId) ==
    [id |-> engineId, thrust |-> 100000,
     isp |-> [atmosphereLevel0 |-> 350, atmosphereLevel1 |-> 300],
     fuelConsumption |-> 10]

GetPartData(partId) ==
    [id |-> partId, category |-> "fuel_tank", mass |-> 1000, dryMass |-> 100]

Max(a, b) == IF a >= b THEN a ELSE b

\* _interpolateIsp; atmRatio in thousandths
InterpolateIsp(engineData, altitude) ==
    LET atmRatio == Max(0, 1000 - (altitude * 1000) \div KERBIN_ATMOSPHERE_HEIGHT)
    IN  engineData.isp.atmosphereLevel0
        + ((engineData.isp.atmosphereLevel1 - engineData.isp.atmosphereLevel0)
           * atmRatio) \div 1000

\* _calculateLocalGravity
CalculateLocalGravity(altitude) ==
    LET distance == Scaled(KERBIN_RADIUS + altitude)
    IN  (KERBIN_GRAVITY * (Scaled(KERBIN_RADIUS) * Scaled(KERBIN_RADIUS)))
        \div (distance * distance)

\* _calculateDryMass
RECURSIVE CalculateDryMass(_)
CalculateDryMass(partList) ==
    IF partList = <<>> THEN 0
    ELSE LET partData == GetPartData(Head(partList).partId)
         IN  (IF partData.category = "fuel_tank" THEN partData.dryMass
              ELSE partData.mass)
             + CalculateDryMass(Tail(partList))

\* Math.log(n / d) in thousandths, for n >= 0 and d > 0: doubling d
\* brings the ratio under 2, then ln x = 2 atanh((x - 1) / (x + 1)) by its
\* series in units of 1/10000
RECURSIVE Log(_, _)
Log(n, d) ==
    IF n >= 2 * d THEN 693 + Log(n, 2 * d)
    ELSE LET y == ((n - d) * 10000) \div (n + d)
             y2 == (y * y) \div 10000
             t3 == (y * y2) \div 10000
             t5 == (t3 * y2) \div 10000
         IN  (2 * (y + t3 \div 3 + t5 \div 5)) \div 10

\* the thrust calculateTWR adds for an engine
TWRThrust(engineData, altitude) ==
    IF altitude >= KERBIN_ATMOSPHERE_HEIGHT THEN engineData.thrust
    ELSE (engineData.thrust * engineData.isp.atmosphereLevel1)
         \div engineData.isp.atmosphereLevel0

RECURSIVE TWRTotalThrust(_, _)
TWRTotalThrust(engines, altitude) ==
    IF engines = <<>> THEN 0
    ELSE TWRThrust(GetEngineData(Head(engines).partId), altitude)
         + TWRTotalThrust(Tail(engines), altitude)

\* calculateTWR
CalculateTWRRun(engines, totalMass, altitude) ==
    IF Len(engines) = 0 \/ totalMass <= 0 THEN 0
    ELSE LET totalWeight == (totalMass * CalculateLocalGravity(altitude))
                            \div 1000
         IN  (TWRTotalThrust(engines, altitude) * 1000) \div totalWeight

\* calculateDeltaV: the ISP and the thrust of one engine
EffectiveIsp(engineData, altitude) ==
    IF altitude >= KERBIN_ATMOSPHERE_HEIGHT
    THEN engineData.isp.atmosphereLevel0
    ELSE InterpolateIsp(engineData, altitude)

EffectiveThrust(engineData, altitude) ==
    IF altitude >= KERBIN_ATMOSPHERE_HEIGHT THEN engineData.thrust
    ELSE (engineData.thrust * EffectiveIsp(engineData, altitude))
         \div engineData.isp.atmosphereLevel0

\* calculateDeltaV: the forEach over the engines, accumulating totalThrust
\* and weightedIsp
RECURSIVE Thrusts(_, _, _)
Thrusts(engines, altitude, sums) ==
    IF engines = <<>> THEN sums
    ELSE LET engineData == GetEngineData(Head(engines).partId)
             effectiveThrust == EffectiveThrust(engineData, altitude)
         IN  Thrusts(Tail(engines), altitude,
                     [totalThrust |-> sums.totalThrust + effectiveThrust,
                      weightedIsp |-> sums.weightedIsp
                          + effectiveThrust * EffectiveIsp(engineData, altitude)])

\* the same without the test on the fuel mass
CalculateDeltaVNoFuelTest(partList, engines, totalMassWithPayload, altitude) ==
    IF Len(engines) = 0 THEN 0
    ELSE LET sums == Thrusts(engines, altitude,
                             [totalThrust |-> 0, weightedIsp |-> 0])
             averageIsp == IF sums.totalThrust > 0
                           THEN sums.weightedIsp \div sums.totalThrust ELSE 0
             dryMass == CalculateDryMass(partList)
         IN  IF dryMass <= 0 THEN 0
             ELSE (averageIsp * (KERBIN_GRAVITY \div 10)
                   * Log(totalMassWithPayload, dryMass)) \div 100000

\* calculateDeltaV
CalculateDeltaVRun(partList, engines, totalMassWithPayload, altitude) ==
    IF Len(engines) = 0 THEN 0
    ELSE LET sums == Thrusts(engines, altitude,
                             [totalThrust |-> 0, weightedIsp |-> 0])
             averageIsp == IF sums.totalThrust > 0
                           THEN sums.weightedIsp \div sums.totalThrust ELSE 0
             dryMass == CalculateDryMass(partList)
             fuelMass == totalMassWithPayload - dryMass
         IN  IF fuelMass <= 0 \/ dryMass <= 0 THEN 0
             ELSE (averageIsp * (KERBIN_GRAVITY \div 10)
                   * Log(totalMassWithPayload, dryMass)) \div 100000

\* calculateBurnTime: the consumption of the engines in g/s
RECURSIVE TotalFuelConsumption(_)
TotalFuelConsumption(engines) ==
    IF engines = <<>> THEN 0
    ELSE LET engineData == GetEngineData(Head(engines).partId)
         IN  (engineData.thrust * 1000)
                 \div ((engineData.isp.atmosphereLevel1 * KERBIN_GRAVITY) \div 1000)
             + TotalFuelConsumption(Tail(engines))

\* calculateBurnTime
CalculateBurnTimeRun(engines, fuelMass) ==
    IF Len(engines) = 0 \/ fuelMass <= 0 THEN 0
    ELSE IF TotalFuelConsumption(engines) <= 0 THEN 0
    ELSE (fuelMass * 1000) \div TotalFuelConsumption(engines)

\* RocketConfig: environment.planet and getCelestialBodyParams
Planet(options) == IF "planet" \in DOMAIN options THEN options.planet ELSE "kerbin"

GetCelestialBodyParams(bodyToUse) ==
    IF bodyToUse = "mun"
    THEN [gravity |-> 1630, atmosphereHeight |-> 0, radius |-> 200000,
          hasAtmosphere |-> FALSE]
    ELSE IF bodyToUse = "minmus"
    THEN [gravity |-> 491, atmosphereHeight |-> 0, radius |-> 60000,
          hasAtmosphere |-> FALSE]
    ELSE [gravity |-> 9810, atmosphereHeight |-> 70000, radius |-> 600000,
          hasAtmosphere |-> TRUE]

\* a call of a physics function on the arguments drawn, while a
\* RocketConfig built from the options drawn is in force
CalculateTWR ==
    /\ call.name = "arguments" /\ call.function = "calculateTWR"
    /\ call' = [call EXCEPT !.name = "calculateTWR"]
    /\ returned' = CalculateTWRRun(call.engines, call.totalMass, call.altitude)
    /\ UNCHANGED <<customRules, validationCache, assemblerVars>>

CalculateDeltaV ==
    /\ call.name = "arguments" /\ call.function = "calculateDeltaV"
    /\ call' = [call EXCEPT !.name = "calculateDeltaV"]
    /\ returned' = CalculateDeltaVRun(call.parts, call.engines, call.totalMass,
                                      call.altitude)
    /\ UNCHANGED <<customRules, validationCache, assemblerVars>>

CalculateBurnTime ==
    /\ call.name = "arguments" /\ call.function = "calculateBurnTime"
    /\ call' = [call EXCEPT !.name = "calculateBurnTime"]
    /\ returned' = CalculateBurnTimeRun(call.engines, call.fuelMass)
    /\ UNCHANGED <<customRules, validationCache, assemblerVars>>

(***************************************************************************)
(* The physics functions on short lists of engines and parts.  An engine   *)
(* of a list carries its own thrust and specific impulses.                 *)
(***************************************************************************)
MaxList == 2

ListsOf(S) == UNION {[1..k -> S] : k \in 0..MaxList}

Engine(partId, thrust, vacuumIsp, seaLevelIsp) ==
    [partId |-> partId, thrust |-> thrust,
     isp |-> [atmosphereLevel0 |-> vacuumIsp, atmosphereLevel1 |-> seaLevelIsp]]

EngineLists ==
    ListsOf({Engine("engine_lv_t30", 215000, 300, 300),
             Engine("engine_lv_909", 60000, 345, 85)})

PartLists == ListsOf({[partId |-> "fuelTank_fl_t400"], [partId |-> "pod_mk1"]})

Altitudes == {0, 30000, 70000}
ConfigOptions == {NoOptions, [planet |-> "mun"], [planet |-> "minmus"]}

\* the arguments of a call and the options of the configuration
PhysicsArguments ==
    {[name |-> "arguments", function |-> "calculateTWR",
      planet |-> Planet(options), engines |-> engines,
      totalMass |-> totalMass, altitude |-> altitude] :
        options \in ConfigOptions, engines \in EngineLists,
        totalMass \in {0, 1000, 21915}, altitude \in Altitudes}
    \cup
    {[name |-> "arguments", function |-> "calculateDeltaV",
      planet |-> Planet(options), parts |-> partList, engines |-> engines,
      totalMass |-> totalMass, altitude |-> altitude] :
        options \in ConfigOptions, partList \in PartLists,
        engines \in EngineLists, totalMass \in {0, 100, 150, 200, 1000},
        altitude \in Altitudes}
    \cup
    {[name |-> "arguments", function |-> "calculateBurnTime",
      planet |-> Planet(options), engines |-> engines,
      fuelMass |-> fuelMass] :
        options \in ConfigOptions, engines \in EngineLists,
        fuelMass \in {0, 900}}

InitPhysics ==
    /\ NoRocket
    /\ customRules = NoRules
    /\ validationCache = EmptyCache
    /\ returned = "undefined"
    /\ call \in PhysicsArguments

NextPhysics == CalculateTWR \/ CalculateDeltaV \/ CalculateBurnTime

SpecPhysics == InitPhysics /\ [][NextPhysics]_vars

(***************************************************************************)
(* C24.  The constants of the configured celestial body.                   *)
(***************************************************************************)
\* the thrust-to-weight ratio and the burn time computed with the gravity,
\* atmosphere height and radius of a body
TWROn(body, engines, totalMass, altitude) ==
    LET distance == Scaled(body.radius + altitude)
        localGravity == (body.gravity * (Scaled(body.radius) * Scaled(body.radius)))
                        \div (distance * distance)
        thrust == IF altitude >= body.atmosphereHeight
                  THEN Len(engines) * GetEngineData("any").thrust
                  ELSE TWRTotalThrust(engines, altitude)
    IN  IF Len(engines) = 0 \/ totalMass <= 0 THEN 0
        ELSE (thrust * 1000) \div ((totalMass * localGravity) \div 1000)

BurnTimeOn(body, engines, fuelMass) ==
    IF Len(engines) = 0 \/ fuelMass <= 0 THEN 0
    ELSE (fuelMass * 1000)
         \div (Len(engines)
               * ((GetEngineData("any").thrust * 1000)
                  \div ((GetEngineData("any").isp.atmosphereLevel1
                         * body.gravity) \div 1000)))

\* C24: calculateTWR and calculateBurnTime return the value computed with
\* the gravity, atmosphere height and radius of the celestial body of the
\* configuration in force (Kerbin's when none is configured)
ReferenceBodyUsed ==
    /\ call.name = "calculateTWR" =>
          returned = TWROn(GetCelestialBodyParams(call.planet), call.engines,
                           call.totalMass, call.altitude)
    /\ call.name = "calculateBurnTime" =>
          returned = BurnTimeOn(GetCelestialBodyParams(call.planet),
                                call.engines, call.fuelMass)

(***************************************************************************)
(* C25.  The thrust-to-weight ratio from each engine's own data.           *)
(***************************************************************************)
RECURSIVE OwnThrust(_, _)
OwnThrust(engines, altitude) ==
    IF engines = <<>> THEN 0
    ELSE TWRThrust(Head(engines), altitude) + OwnThrust(Tail(engines), altitude)

OwnTWR(engines, totalMass, altitude) ==
    (OwnThrust(engines, altitude) * 1000)
    \div ((totalMass * CalculateLocalGravity(altitude)) \div 1000)

\* C25: calculateTWR returns 0 for an empty engine list or a total mass
\* that is not positive; otherwise it returns, within 0.01, the sum of the
\* thrusts of the given engines' own data divided by totalMass * g(altitude)
\* (1.0 for one engine of 215 kN and 21915 kg at altitude 0)
TWRUsesOwnData ==
    call.name = "calculateTWR" =>
        IF Len(call.engines) = 0 \/ call.totalMass <= 0 THEN returned = 0
        ELSE LET own == OwnTWR(call.engines, call.totalMass, call.altitude)
             IN  returned - own \in -10..10

(***************************************************************************)
(* C26.  The sign of the delta-v, and its independence of the order of     *)
(* the lists.                                                              *)
(***************************************************************************)
Reordered(s) == {[i \in DOMAIN s |-> s[p[i]]] : p \in Permutations(DOMAIN s)}

\* C26: calculateDeltaV returns 0 when the engine list is empty, the
\* computed dry mass is not positive or the total mass does not exceed it;
\* it returns a positive number when there is an engine and the dry mass
\* is positive and under the total mass; and it returns the same number
\* for the lists in any other order
DeltaVSign ==
    call.name = "calculateDeltaV" =>
        LET dryMass == CalculateDryMass(call.parts)
        IN  /\ (\/ Len(call.engines) = 0
                \/ dryMass <= 0
                \/ call.totalMass - dryMass <= 0) => returned = 0
            /\ (/\ Len(call.engines) > 0
                /\ dryMass > 0
                /\ dryMass < call.totalMass) => returned > 0
            /\ \A partList \in Reordered(call.parts),
                  engines \in Reordered(call.engines) :
                  CalculateDeltaVRun(partList, engines, call.totalMass,
                                     call.altitude) = returned

DeltaVSignWitness ==
    /\ call.name = "calculateDeltaV"
    /\ Len(call.engines) = 2
    /\ call.engines[1] # call.engines[2]
    /\ Len(call.parts) = 2
    /\ call.parts[1] # call.parts[2]
    /\ CalculateDryMass(call.parts) < call.totalMass
    /\ returned > 0

(***************************************************************************)
(* relationValidators.js.  A celestial body is a record of id, parent      *)
(* (Missing when it has none) and type; a technology a record of id and    *)
(* parents, an array of ids.                                               *)
(***************************************************************************)
\* bodiesIndex and techsIndex: for each id the last entity that has it
IndexById(entities) ==
    [id \in {entities[i].id : i \in DOMAIN entities} |->
        entities[CHOOSE i \in DOMAIN entities :
                    /\ entities[i].id = id
                    /\ \A j \in DOMAIN entities : j > i => entities[j].id # id]]

\* index[id], undefined (Missing) when the index has no such key
Lookup(index, id) == IF id \in DOMAIN index THEN Some(index[id]) ELSE Missing

\* ERROR_CODES.CIRCULAR_REFERENCE: ERROR_CODES has no such key
CIRCULAR_REFERENCE == Missing

\* the code formatError gives a finding: formatters.js defines formatError
\* twice, with the default 'invalid_value' (1) and with
\* code || 'constraint_violation' (2)
CodeOf(code, definition) ==
    IF ~IsMissing(code) THEN Value(code)
    ELSE IF definition = 1 THEN "invalid_value" ELSE "constraint_violation"

\* validateCelestialBodyHierarchy: the finding for a circular reference
CircularFinding(body, definition) ==
    FormatError(Message("circular reference", body.id, 0),
                <<"celestialBodies", body.id, "parent">>,
                CodeOf(CIRCULAR_REFERENCE, definition), "error")

\* validateCelestialBodyHierarchy: the while loop from a body, with the
\* number of its iterations
RECURSIVE WalkParents(_, _, _, _, _)
WalkParents(index, body, current, visited, steps) ==
    IF \/ IsMissing(current)
       \/ IsMissing(Value(current).parent)
       \/ Value(current).id \in visited
    THEN [circular |-> FALSE, steps |-> steps]
    ELSE LET next == Lookup(index, Value(Value(current).parent))
         IN  IF ~IsMissing(next) /\ Value(next).id = body.id
             THEN [circular |-> TRUE, steps |-> steps + 1]
             ELSE WalkParents(index, body, next,
                              visited \cup {Value(current).id}, steps + 1)

\* validateCelestialBodyHierarchy: the errors pushed for one body
BodyErrors(index, body, definition) ==
    IF IsMissing(body.parent) \/ body.type = "star" THEN <<>>
    ELSE IF Value(body.parent) \notin DOMAIN index
    THEN <<FormatError(Message("missing parent", body.id, 0),
                       <<"celestialBodies", body.id, "parent">>,
                       "reference_error", "error")>>
    ELSE IF WalkParents(index, body, Some(body), {}, 0).circular
    THEN <<CircularFinding(body, definition)>>
    ELSE <<>>

RECURSIVE BodyErrorsFrom(_, _, _, _)
BodyErrorsFrom(index, bodies, i, definition) ==
    IF i > Len(bodies) THEN <<>>
    ELSE BodyErrors(index, bodies[i], definition)
         \o BodyErrorsFrom(index, bodies, i + 1, definition)

\* validateCelestialBodyHierarchy: what it appends to errors, and the
\* longest walk it made
ValidateCelestialBodyHierarchyRun(bodies, definition) ==
    [errors |-> BodyErrorsFrom(IndexById(bodies), bodies, 1, definition),
     warnings |-> <<>>,
     steps |-> [i \in DOMAIN bodies |->
                   WalkParents(IndexById(bodies), bodies[i], Some(bodies[i]),
                               {}, 0).steps]]

\* validateTechTreeCycles: detectCycle and its loop over the parents; st
\* holds visited, stack, the warnings and the value returned
RECURSIVE DetectCycle(_, _, _, _)
RECURSIVE DetectParents(_, _, _, _, _, _)
DetectCycle(index, techId, st, definition) ==
    LET marked == [st EXCEPT !.visited = @ \cup {techId},
                             !.stack = @ \cup {techId}]
    IN  IF techId \notin DOMAIN index THEN [marked EXCEPT !.cycle = FALSE]
        ELSE LET out == DetectParents(index, techId, index[techId].parents, 1,
                                      marked, definition)
             IN  IF out.cycle THEN out
                 ELSE [out EXCEPT !.stack = @ \ {techId}]

DetectParents(index, techId, parents, i, st, definition) ==
    IF i > Len(parents) THEN [st EXCEPT !.cycle = FALSE]
    ELSE IF parents[i] \notin DOMAIN index
    THEN DetectParents(index, techId, parents, i + 1,
             [st EXCEPT !.warnings =
                 Append(@, FormatError(Message("missing parent", parents[i], 0),
                                       <<"techs", techId, "parents">>,
                                       "reference_error", "warning"))],
             definition)
    ELSE IF parents[i] \notin st.visited
    THEN LET out == DetectCycle(index, parents[i], st, definition)
         IN  IF out.cycle THEN out
             ELSE DetectParents(index, techId, parents, i + 1, out, definition)
    ELSE IF parents[i] \in st.stack THEN [st EXCEPT !.cycle = TRUE]
    ELSE DetectParents(index, techId, parents, i + 1, st, definition)

\* validateTechTreeCycles: the loop over the technologies
RECURSIVE TechCyclesFrom(_, _, _, _, _)
TechCyclesFrom(index, techs, i, st, definition) ==
    IF i > Len(techs) THEN st
    ELSE IF techs[i].id \in st.visited
    THEN TechCyclesFrom(index, techs, i + 1, st, definition)
    ELSE LET out == DetectCycle(index, techs[i].id, st, definition)
         IN  TechCyclesFrom(index, techs, i + 1,
                 IF out.cycle
                 THEN [out EXCEPT !.errors =
                          Append(@, FormatError(
                                        Message("cycle", techs[i].id, 0),
                                        <<"techs", techs[i].id>>,
                                        CodeOf(CIRCULAR_REFERENCE, definition),
                                        "error"))]
                 ELSE out,
                 definition)

\* validateTechTreeCycles: what it appends to errors and warnings
ValidateTechTreeCyclesRun(techs, definition) ==
    LET out == TechCyclesFrom(IndexById(techs), techs, 1,
                              [visited |-> {}, stack |-> {}, cycle |-> FALSE,
                               errors |-> <<>>, warnings |-> <<>>],
                              definition)
    IN  [errors |-> out.errors, warnings |-> out.warnings]

\* a call of a relation validator on the collection drawn, with empty
\* errors and warnings arrays
ValidateCelestialBodyHierarchy ==
    /\ call.name = "arguments"
    /\ call.function = "validateCelestialBodyHierarchy"
    /\ call' = [call EXCEPT !.name = "validateCelestialBodyHierarchy"]
    /\ returned' = ValidateCelestialBodyHierarchyRun(call.bodies,
                                                     call.definition)
    /\ UNCHANGED <<customRules, validationCache, assemblerVars>>

ValidateTechTreeCycles ==
    /\ call.name = "arguments"
    /\ call.function = "validateTechTreeCycles"
    /\ call' = [call EXCEPT !.name = "validateTechTreeCycles"]
    /\ returned' = ValidateTechTreeCyclesRun(call.techs, call.definition)
    /\ UNCHANGED <<customRules, validationCache, assemblerVars>>

(***************************************************************************)
(* Collections of up to MaxEntities bodies or technologies with distinct   *)
(* ids; a parent is one of the ids or "ghost", the id of no entity.  Every *)
(* other order of a collection is one of these with its ids renamed.       *)
(***************************************************************************)
MaxEntities == 3

IdOrder == <<"a", "b", "c", "d">>
Ids == {IdOrder[i] : i \in 1..MaxEntities}

BodyCollections ==
    UNION {{[i \in 1..k |-> [id |-> IdOrder[i], parent |-> parent[i],
                             type |-> type[i]]] :
               parent \in [1..k -> {Missing} \cup {Some(id) : id \in Ids \cup {"ghost"}}],
               type \in [1..k -> {"planet", "star"}]} :
           k \in 1..MaxEntities}

ParentLists ==
    {parents \in UNION {[1..k -> Ids \cup {"ghost"}] : k \in 0..2} :
        \A i, j \in DOMAIN parents : i # j => parents[i] # parents[j]}

TechCollections ==
    UNION {{[i \in 1..k |-> [id |-> IdOrder[i], parents |-> parents[i]]] :
               parents \in [1..k -> ParentLists]} :
           k \in 1..MaxEntities}

RelationArguments ==
    {[name |-> "arguments", function |-> "validateCelestialBodyHierarchy",
      bodies |-> bodies, definition |-> definition] :
        bodies \in BodyCollections, definition \in {1, 2}}
    \cup
    {[name |-> "arguments", function |-> "validateTechTreeCycles",
      techs |-> techs, definition |-> definition] :
        techs \in TechCollections, definition \in {1, 2}}

InitRelations ==
    /\ NoRocket
    /\ customRules = NoRules
    /\ validationCache = EmptyCache
    /\ returned = "undefined"
    /\ call \in RelationArguments

NextRelations == ValidateCelestialBodyHierarchy \/ ValidateTechTreeCycles

SpecRelations == InitRelations /\ [][NextRelations]_vars

(***************************************************************************)
(* C22, C23, C27.  Cycles of parent references.                            *)
(***************************************************************************)
\* the ids reachable from the ids of S along resolvable parent references,
\* edges giving the parents of an id
RECURSIVE Upward(_, _)
Upward(edges, S) ==
    LET more == S \cup UNION {edges[id] : id \in S \cap DOMAIN edges}
    IN  IF more = S THEN S ELSE Upward(edges, more)

OnCycle(edges, id) ==
    id \in DOMAIN edges /\ id \in Upward(edges, edges[id])

\* the parent references of bodies that are not stars, and of technologies,
\* that resolve
BodyEdges(bodies) ==
    [id \in {bodies[i].id : i \in DOMAIN bodies} |->
        LET body == IndexById(bodies)[id]
        IN  IF IsMissing(body.parent) \/ body.type = "star" THEN {}
            ELSE {Value(body.parent)} \cap DOMAIN IndexById(bodies)]

TechEdges(techs) ==
    [id \in {techs[i].id : i \in DOMAIN techs} |->
        {IndexById(techs)[id].parents[k] :
            k \in DOMAIN IndexById(techs)[id].parents}
        \cap DOMAIN IndexById(techs)]

Named(findings) == {findings[i].message.subject : i \in DOMAIN findings}

\* C22: after validateCelestialBodyHierarchy on bodies whose parent
\* references form a cycle of non-star bodies, errors holds a finding of
\* type error with the circular-reference code for a body on a cycle; and
\* no walk along the parents takes more steps than there are bodies
BodyCycleFlagged ==
    call.name = "validateCelestialBodyHierarchy" =>
        /\ (\E id \in DOMAIN BodyEdges(call.bodies) :
               OnCycle(BodyEdges(call.bodies), id))
           => \E i \in DOMAIN returned.errors :
                 /\ returned.errors[i].type = "error"
                 /\ returned.errors[i].code = "circular_reference"
                 /\ OnCycle(BodyEdges(call.bodies),
                            returned.errors[i].message.subject)
        /\ \A i \in DOMAIN returned.steps :
              returned.steps[i] <= Len(call.bodies)

\* the parent references to a technology that does not exist
MissingReferences(techs) ==
    {<<i, k>> \in (DOMAIN techs) \X (1..2) :
        /\ k \in DOMAIN techs[i].parents
        /\ techs[i].parents[k] \notin DOMAIN IndexById(techs)}

\* C23: validateTechTreeCycles appends an error exactly when the
\* resolvable parent references contain a cycle, every finding in errors
\* being of type error, and one warning for each parent reference to a
\* missing technology
TechCycleIff ==
    call.name = "validateTechTreeCycles" =>
        /\ Len(returned.errors) > 0
           <=> \E id \in DOMAIN TechEdges(call.techs) :
                  OnCycle(TechEdges(call.techs), id)
        /\ \A i \in DOMAIN returned.errors : returned.errors[i].type = "error"
        /\ \A i \in DOMAIN returned.warnings :
              returned.warnings[i].type = "warning"
        /\ Len(returned.warnings) = Cardinality(MissingReferences(call.techs))

\* C27: every technology that an error of validateTechTreeCycles names
\* lies on a cycle of parent references
TechCycleLocated ==
    call.name = "validateTechTreeCycles" =>
        \A id \in Named(returned.errors) : OnCycle(TechEdges(call.techs), id)

(***************************************************************************)
(* C21.  Fuel tanks whose volume is a number or a numeric string, with one *)
(* resource that is sound for validateResources.                           *)
(***************************************************************************)
Tank(volume, maxAmount) ==
    Some(Merge(NewPart(Some("t1"), Some("Tank"), SoundMass),
               [category |-> Some("fuel_tanks"), tankType |-> Some("liquid"),
                volume |-> volume,
                resources |-> Some(<<[type |-> "LiquidFuel", amount |-> 0,
                                      maxAmount |-> maxAmount]>>)]))

Volumes ==
    {Missing} \cup {Some([type |-> type, number |-> number]) :
                       type \in {"number", "string"}, number \in {0, 5, 7}}

MalformedEntities(type) ==
    IF type = "part"
    THEN {NoEntity} \cup {Tank(volume, maxAmount) :
                             volume \in Volumes, maxAmount \in {0, 5}}
    ELSE CachedEntities(type)

NextMalformed ==
    \E type \in {"part", "resource"}, options \in CacheOptions :
        \E obj \in MalformedEntities(type) : Validate(obj, type, options)

SpecMalformed == InitValidator /\ [][NextMalformed]_vars

\* C21: no call of the validate dispatcher on a part or a resource throws,
\* whatever the data; it returns a validation result
ValidatorsNeverThrow ==
    call.name = "validate" => ~call.threw

====
